---- MODULE Spec2Model ----
(***************************************************************************)
(* Cascaded shadow map renderer of Fyrox                                   *)
(* (fyrox-impl/src/renderer/shadow/csm.rs): construction of the three      *)
(* cascades and the per-frame render loop, as a state machine.             *)
(*                                                                         *)
(* Scalars are f32 values.  A finite f32 is the pair <<m, e>> of a signed  *)
(* 24-bit significand and an exponent, standing for m * 2^(e - 23), with   *)
(* 2^23 <= |m| < 2^24, or <<0, 0>> for zero.  Addition and multiplication  *)
(* round to nearest, ties to even, as the hardware does.                   *)
(*                                                                         *)
(* After the renderer: the render-data collection of a tile map and the    *)
(* ChangeFlag (fyrox-impl/src/scene/tilemap/mod.rs), and the message       *)
(* handler of the tile map editor plugin                                   *)
(* (editor/src/plugins/tilemap/mod.rs), each with a specification of its   *)
(* own over the same variables.                                            *)
(***************************************************************************)
EXTENDS Integers, Sequences, FiniteSets, TLC

\* ------------------------------------------------------------------ f32

RECURSIVE Pow2(_)
Pow2(n) == IF n <= 0 THEN 1 ELSE 2 * Pow2(n - 1)

Abs(x) == IF x < 0 THEN -x ELSE x

Sgn(x) == IF x < 0 THEN -1 ELSE 1

\* Number of binary digits of n > 0.
RECURSIVE BitLen(_)
BitLen(n) == IF n <= 0 THEN 0 ELSE 1 + BitLen(n \div 2)

FZero == <<0, 0>>

\* The f32 nearest to s * 2^x (|s| < 2^30), ties to even.
Pack(s, x) ==
    IF s = 0 THEN FZero
    ELSE LET a == Abs(s)
             k == BitLen(a)
         IN IF k <= 24
            THEN <<Sgn(s) * a * Pow2(24 - k), x + k - 1>>
            ELSE LET r    == k - 24
                     q    == a \div Pow2(r)
                     rem  == a % Pow2(r)
                     half == Pow2(r - 1)
                     up   == rem > half \/ (rem = half /\ q % 2 = 1)
                     m    == IF up THEN q + 1 ELSE q
                 IN IF m = 16777216
                    THEN <<Sgn(s) * 8388608, x + k>>
                    ELSE <<Sgn(s) * m, x + k - 1>>

\* A small integer as an f32 (exact for |n| < 2^24).
FromInt(n) == Pack(n, 0)

\* n / 2^k as an f32 (exact for |n| < 2^24).
Dyadic(n, k) == Pack(n, -k)

\* a + b in f32: align on the larger exponent with three guard bits, the
\* shifted-out bits of the smaller operand jammed into the last one.
FAdd(a, b) ==
    IF a[1] = 0 THEN b
    ELSE IF b[1] = 0 THEN a
    ELSE LET hi == IF a[2] >= b[2] THEN a ELSE b
             lo == IF a[2] >= b[2] THEN b ELSE a
             d  == hi[2] - lo[2]
         IN IF d >= 27 THEN hi
            ELSE LET X    == hi[1] * 8
                     aLo  == Abs(lo[1])
                     q    == IF d <= 3 THEN aLo * Pow2(3 - d) ELSE aLo \div Pow2(d - 3)
                     lost == d > 3 /\ aLo % Pow2(d - 3) # 0
                     Y    == IF lost /\ q % 2 = 0 THEN q + 1 ELSE q
                 IN Pack(X + Sgn(lo[1]) * Y, hi[2] - 26)

\* a * b in f32: the 48-bit product of the significands from 12-bit limbs,
\* then rounded to 24 bits.
FMul(a, b) ==
    IF a[1] = 0 \/ b[1] = 0 THEN FZero
    ELSE LET ma  == Abs(a[1])
             mb  == Abs(b[1])
             a1  == ma \div 4096
             a0  == ma % 4096
             b1  == mb \div 4096
             b0  == mb % 4096
             mid == a1 * b0 + a0 * b1
             low == (mid % 4096) * 4096 + a0 * b0
             H   == a1 * b1 + (mid \div 4096) + (low \div 16777216)
             L   == low % 16777216
             sg  == Sgn(a[1]) * Sgn(b[1])
             big == H >= 8388608
             q   == IF big THEN H ELSE 2 * H + (L \div 8388608)
             rem == IF big THEN L ELSE L % 8388608
             half == IF big THEN 8388608 ELSE 4194304
             up  == rem > half \/ (rem = half /\ q % 2 = 1)
             m   == IF up THEN q + 1 ELSE q
             e   == a[2] + b[2] + (IF big THEN 1 ELSE 0)
         IN IF m = 16777216 THEN <<sg * 8388608, e + 1>> ELSE <<sg * m, e>>

\* a < b on f32 values.
FLess(a, b) ==
    LET neg(v) == v[1] < 0
        \* magnitude order of two non-zero values of the same sign
        magLess(u, v) == u[2] < v[2] \/ (u[2] = v[2] /\ Abs(u[1]) < Abs(v[1]))
    IN IF a[1] = 0 THEN b[1] > 0
       ELSE IF b[1] = 0 THEN a[1] < 0
       ELSE IF neg(a) # neg(b) THEN neg(a)
       ELSE IF neg(a) THEN magLess(b, a) ELSE magLess(a, b)

\* f32::EPSILON = 2^-23.
F32_EPSILON == <<8388608, -23>>

\* ------------------------------------------------------- vectors, matrices

\* Directions are exact integer triples; a light vector is a direction
\* scaled by an f32 length, so that normalizing it is not the identity.
VecX == <<1, 0, 0>>

VecY == <<0, 1, 0>>

VecZ == <<0, 0, 1>>

VecNeg(v) == <<-v[1], -v[2], -v[3]>>

VecAdd(u, v) == <<u[1] + v[1], u[2] + v[2], u[3] + v[3]>>

VecSub(u, v) == <<u[1] - v[1], u[2] - v[2], u[3] - v[3]>>

Cross(u, v) ==
    <<u[2] * v[3] - u[3] * v[2], u[3] * v[1] - u[1] * v[3], u[1] * v[2] - u[2] * v[1]>>

None == [some |-> FALSE]

Some(x) == [some |-> TRUE, v |-> x]

\* Option::unwrap_or_else / unwrap_or_default.
UnwrapOr(o, d) == IF o.some THEN o.v ELSE d

\* Vector3::try_normalize(min_norm): None when the norm does not exceed
\* min_norm, else the unit vector of the same direction.
TryNormalize(vec, min_norm) ==
    IF FLess(min_norm, vec.len) THEN Some(vec.axis) ELSE None

\* A matrix with a NaN entry.
NanMatrix == [kind |-> "nan"]

\* Matrix4::default().
DefaultMatrix == [kind |-> "default"]

\* camera.projection().clone().with_z_near(zn).with_z_far(zf).matrix(frame_size)
\* times camera.view_matrix().
CameraViewProjection(camera, frame_size, zn, zf) ==
    [kind |-> "camera", view |-> camera.view, frame_size |-> frame_size,
     z_near |-> zn, z_far |-> zf]

\* Frustum::default().
DefaultFrustum == [kind |-> "default"]

\* Frustum::from_view_projection_matrix: None for a matrix of a split of no
\* depth, else the frustum between the two planes.
FrustumFromViewProjection(m) ==
    IF m.z_near = m.z_far THEN None
    ELSE Some([kind |-> "split", view |-> m.view, frame_size |-> m.frame_size,
               z_near |-> m.z_near, z_far |-> m.z_far])

\* A point: the centre of a frustum plus an exact integer offset.
FrustumCenter(frustum) == [base |-> frustum, off |-> <<0, 0, 0>>]

PointAdd(p, v) == [base |-> p.base, off |-> VecAdd(p.off, v)]

\* Matrix4::look_at_lh(eye, target, up): the basis is zaxis = dir,
\* xaxis = up x zaxis, yaxis = zaxis x xaxis, each normalized; a zero cross
\* product normalizes to NaN.
LookAtLh(eye, target, up) ==
    LET zaxis == VecSub(target.off, eye.off)
        xaxis == Cross(up, zaxis)
    IN IF xaxis = <<0, 0, 0>> THEN NanMatrix
       ELSE [kind |-> "look_at", eye |-> eye, xaxis |-> xaxis,
             yaxis |-> Cross(zaxis, xaxis), zaxis |-> zaxis]

\* The light-space box of the 8 frustum corners (lines 237-243) after the
\* z padding (lines 245-256).
LightSpaceAabb(frustum, light_view_matrix) ==
    [kind |-> "aabb", corners |-> frustum, view |-> light_view_matrix, z_mult |-> 10]

\* Matrix4::new_orthographic of the six bounds of the box.
NewOrthographic(aabb) == [kind |-> "ortho", box |-> aabb]

\* Matrix product; NaN entries spread to the product.
MatMul(a, b) ==
    IF a.kind = "nan" \/ b.kind = "nan" THEN NanMatrix
    ELSE [kind |-> "product", left |-> a, right |-> b]

\* Matrix4::try_inverse: the outcomes it can report.  A look-at matrix of
\* an orthonormal basis has its inverse; a matrix of parallel axes has none,
\* which is reported as None (a zero determinant) or, the determinant being
\* NaN and not zero, as a matrix of NaN.
TryInverse(m) ==
    IF m.kind = "nan" THEN {None, Some(NanMatrix)}
    ELSE {Some([kind |-> "inverse", xaxis |-> m.xaxis, yaxis |-> m.yaxis, zaxis |-> m.zaxis])}

NanVec == [finite |-> FALSE, v |-> <<0, 0, 0>>]

\* Matrix4Ext::up and side of an inverted view matrix: the y and x axes.
MatUp(m) == IF m.kind = "nan" THEN NanVec ELSE [finite |-> TRUE, v |-> m.yaxis]

MatSide(m) == IF m.kind = "nan" THEN NanVec ELSE [finite |-> TRUE, v |-> m.xaxis]

\* ------------------------------------------------------------ construction

\* light::directional::CSM_NUM_CASCADES.
CSM_NUM_CASCADES == 3

CascadeIndices == 0 .. (CSM_NUM_CASCADES - 1)

\* A result of the graphics server or of the renderer.
Ok(x) == [ok |-> TRUE, v |-> x]

Err(e) == [ok |-> FALSE, error |-> e]

FrameworkErrors == {"OutOfMemory", "Unsupported"}

\* The depth format that is 32-bit float whatever the precision.
PixelKindAlwaysFull(precision) == "D32F"

PixelKindOf(precision) == IF precision = "Full" THEN "D32F" ELSE "D16"

\* Cascade::new that does not look at the result of create_frame_buffer.
CascadeNewFrameBufferUnchecked(size, precision, index, textureResult, frameBufferResult) ==
    IF ~textureResult.ok THEN Err(textureResult.error)
    ELSE Ok([frame_buffer |-> [id |-> index,
                               depth |-> [kind |-> PixelKindOf(precision),
                                          width |-> size, height |-> size,
                                          wrap_s |-> "ClampToEdge",
                                          wrap_t |-> "ClampToEdge"],
                               color_attachments |-> <<>>],
             view_proj_matrix |-> DefaultMatrix,
             z_far |-> FZero])

\* Cascade::new that starts the cascade with a z_far of 1.0.
CascadeNewFarOne(size, precision, index, textureResult, frameBufferResult) ==
    IF ~textureResult.ok THEN Err(textureResult.error)
    ELSE IF ~frameBufferResult.ok THEN Err(frameBufferResult.error)
    ELSE Ok([frame_buffer |-> [id |-> index,
                               depth |-> [kind |-> PixelKindOf(precision),
                                          width |-> size, height |-> size,
                                          wrap_s |-> "ClampToEdge",
                                          wrap_t |-> "ClampToEdge"],
                               color_attachments |-> <<>>],
             view_proj_matrix |-> DefaultMatrix,
             z_far |-> FromInt(1)])

\* Cascade::new: the depth texture, then the frame buffer around it; either
\* allocation may fail and its error is returned (the ? operator).
CascadeNew(size, precision, index, textureResult, frameBufferResult) ==
    IF ~textureResult.ok THEN Err(textureResult.error)
    ELSE IF ~frameBufferResult.ok THEN Err(frameBufferResult.error)
    ELSE Ok([frame_buffer |-> [id |-> index,
                               depth |-> [kind |-> PixelKindOf(precision),
                                          width |-> size, height |-> size,
                                          wrap_s |-> "ClampToEdge",
                                          wrap_t |-> "ClampToEdge"],
                               color_attachments |-> <<>>],
             view_proj_matrix |-> DefaultMatrix,
             z_far |-> FZero])

\* CsmRenderer::new: three Cascade::new in order, the first error returned.
\* server[k] is what the server answers to the k-th allocation, k in 1..6.
CsmRendererNew(size, precision, server) ==
    LET c0 == CascadeNew(size, precision, 0, server[1], server[2])
        c1 == CascadeNew(size, precision, 1, server[3], server[4])
        c2 == CascadeNew(size, precision, 2, server[5], server[6])
    IN IF ~c0.ok THEN Err(c0.error)
       ELSE IF ~c1.ok THEN Err(c1.error)
       ELSE IF ~c2.ok THEN Err(c2.error)
       ELSE Ok([precision |-> precision, size |-> size,
                cascades |-> [i \in CascadeIndices |->
                                 IF i = 0 THEN c0.v ELSE IF i = 1 THEN c1.v ELSE c2.v]])

\* CsmRenderer::precision() and size().
PrecisionOf(r) == r.precision

SizeOf(r) == r.size

\* The allocations CsmRenderer::new asks of the server: up to the first
\* failing one.
RECURSIVE AllocationsMade(_, _)
AllocationsMade(server, k) ==
    IF k > 2 * CSM_NUM_CASCADES THEN 2 * CSM_NUM_CASCADES
    ELSE IF ~server[k].ok THEN k
    ELSE AllocationsMade(server, k + 1)

\* ------------------------------------------------------------------ render

\* The light direction with the negation applied to the normalized vector
\* only, the fallback axis left as it is.
LightDirectionPlainFallback(light) ==
    LET n == TryNormalize(light.up_vector, F32_EPSILON)
    IN IF n.some THEN VecNeg(n.v) ELSE VecY

\* light.up_vector() negated after the fallback (lines 185-188).
LightDirection(light) ==
    VecNeg(UnwrapOr(TryNormalize(light.up_vector, F32_EPSILON), VecY))

\* light.look_vector() (lines 190-193).
LightUpVec(light) ==
    UnwrapOr(TryNormalize(light.look_vector, F32_EPSILON), VecZ)

FMin(a, b) == IF FLess(b, a) THEN b ELSE a

FMax(a, b) == IF FLess(a, b) THEN b ELSE a

\* The split planes with the last one replaced by the far plane of the camera.
ZValuesEndAtCameraFar(camera, split_options) ==
    [k \in 0 .. CSM_NUM_CASCADES |->
        IF k = 0 THEN camera.z_near
        ELSE IF k = CSM_NUM_CASCADES THEN camera.z_far
        ELSE IF split_options.kind = "Absolute" THEN split_options.far_planes[k]
        ELSE FMul(camera.z_far, split_options.fractions[k])]

\* The split planes clamped into the depth range of the camera.
ZValuesClamped(camera, split_options) ==
    [k \in 0 .. CSM_NUM_CASCADES |->
        IF k = 0 THEN camera.z_near
        ELSE FMax(camera.z_near,
                  FMin(camera.z_far,
                       IF split_options.kind = "Absolute"
                       THEN split_options.far_planes[k]
                       ELSE FMul(camera.z_far, split_options.fractions[k])))]

\* The split planes (lines 195-208), indexed 0..3.
ZValues(camera, split_options) ==
    IF split_options.kind = "Absolute"
    THEN [k \in 0 .. CSM_NUM_CASCADES |->
             IF k = 0 THEN camera.z_near ELSE split_options.far_planes[k]]
    ELSE [k \in 0 .. CSM_NUM_CASCADES |->
             IF k = 0 THEN camera.z_near
             ELSE FMul(camera.z_far, split_options.fractions[k])]

\* 10.0 * f32::EPSILON = 1.25 * 2^-20, exact in f32.
TenEpsilon == <<10485760, -20>>

\* The far plane of a split after the guard of lines 212-216.
GuardedZFar(z_near, z_far) ==
    IF z_far = z_near THEN FAdd(z_far, TenEpsilon) ELSE z_far

\* The loop body that takes as near plane of cascade i the far plane the
\* cascade before it used (after its guard).
FitCarriesPreviousFar(camera, frame_size, light_direction, light_up_vec, z_values, i) ==
    LET z_near == IF i = 0 THEN z_values[0]
                  ELSE GuardedZFar(z_values[i - 1], z_values[i])
        z_far  == GuardedZFar(z_near, z_values[i + 1])
        frustum == UnwrapOr(FrustumFromViewProjection(
                                CameraViewProjection(camera, frame_size, z_near, z_far)),
                            DefaultFrustum)
        center == FrustumCenter(frustum)
        observer_position == PointAdd(center, light_direction)
        light_view_matrix == LookAtLh(observer_position, center, light_up_vec)
        aabb == LightSpaceAabb(frustum, light_view_matrix)
        cascade_projection_matrix == NewOrthographic(aabb)
    IN [z_near |-> z_near, z_far |-> z_far, frustum |-> frustum,
        observer_position |-> observer_position,
        light_view_matrix |-> light_view_matrix,
        cascade_projection_matrix |-> cascade_projection_matrix,
        light_view_projection |-> MatMul(cascade_projection_matrix, light_view_matrix)]

\* The loop body that goes on with the frustum of the split whether or not
\* its extraction failed.
FitWithoutFallback(camera, frame_size, light_direction, light_up_vec, z_values, i) ==
    LET z_near == z_values[i]
        z_far  == GuardedZFar(z_near, z_values[i + 1])
        frustum == [kind |-> "split", view |-> camera.view, frame_size |-> frame_size,
                    z_near |-> z_near, z_far |-> z_far]
        center == FrustumCenter(frustum)
        observer_position == PointAdd(center, light_direction)
        light_view_matrix == LookAtLh(observer_position, center, light_up_vec)
        aabb == LightSpaceAabb(frustum, light_view_matrix)
        cascade_projection_matrix == NewOrthographic(aabb)
    IN [z_near |-> z_near, z_far |-> z_far, frustum |-> frustum,
        observer_position |-> observer_position,
        light_view_matrix |-> light_view_matrix,
        cascade_projection_matrix |-> cascade_projection_matrix,
        light_view_projection |-> MatMul(cascade_projection_matrix, light_view_matrix)]

\* Lines 211-260 and 266 for cascade i: everything the loop body computes
\* before it asks for the inverse of the light view matrix.
Fit(camera, frame_size, light_direction, light_up_vec, z_values, i) ==
    LET z_near == z_values[i]
        z_far  == GuardedZFar(z_near, z_values[i + 1])
        frustum == UnwrapOr(FrustumFromViewProjection(
                                CameraViewProjection(camera, frame_size, z_near, z_far)),
                            DefaultFrustum)
        center == FrustumCenter(frustum)
        observer_position == PointAdd(center, light_direction)
        light_view_matrix == LookAtLh(observer_position, center, light_up_vec)
        aabb == LightSpaceAabb(frustum, light_view_matrix)
        cascade_projection_matrix == NewOrthographic(aabb)
    IN [z_near |-> z_near, z_far |-> z_far, frustum |-> frustum,
        observer_position |-> observer_position,
        light_view_matrix |-> light_view_matrix,
        cascade_projection_matrix |-> cascade_projection_matrix,
        light_view_projection |-> MatMul(cascade_projection_matrix, light_view_matrix)]

\* RenderPassStatistics and its +=.
ZeroStats == [draw_calls |-> 0, triangles_rendered |-> 0]

\* The += that keeps the draw calls and loses the triangles.
StatsAddDrawCallsOnly(a, b) ==
    [draw_calls |-> a.draw_calls + b.draw_calls,
     triangles_rendered |-> a.triangles_rendered]

StatsAdd(a, b) ==
    [draw_calls |-> a.draw_calls + b.draw_calls,
     triangles_rendered |-> a.triangles_rendered + b.triangles_rendered]

\* ------------------------------------------------------------------ inputs

\* Render calls one behaviour makes.
MaxFrames == 2

\* Bundles RenderDataBundleStorage::from_graph may return for one cascade.
MaxBundles == 1

Sizes == {512, 1024}

Precisions == {"Full", "Half"}

\* The size and precision a renderer is constructed with: the small map in
\* full precision or the large one in half precision.
ShadowMapSettings ==
    {st \in Sizes \X Precisions : (st[1] = 512) <=> (st[2] = "Full")}

\* What the server may answer to the six allocations of one construction:
\* all succeed, or up to two of them fail.
ServerAnswers ==
    LET Allocs == 1 .. 2 * CSM_NUM_CASCADES
        Fail(k1, e1, k2, e2) ==
            [k \in Allocs |-> IF k = k1 THEN Err(e1)
                              ELSE IF k = k2 THEN Err(e2) ELSE Ok("handle")]
    IN {[k \in Allocs |-> Ok("handle")]}
       \cup {Fail(k1, e1, k2, e2) : k1 \in Allocs, k2 \in Allocs,
                                    e1 \in FrameworkErrors, e2 \in FrameworkErrors}

\* 0.1, 0.3 and 0.6 as f32.
F0_1 == <<13421773, -4>>

F0_3 == <<10066330, -2>>

F0_6 == <<10066330, -1>>

Cameras ==
    {[view |-> "identity", z_near |-> F0_1, z_far |-> FromInt(100)],
     [view |-> "identity", z_near |-> FromInt(1), z_far |-> FromInt(64)]}

FrameSizes == {<<800, 600>>}

\* Half of f32::EPSILON: a length below the normalization threshold.
TinyLen == Dyadic(1, 24)

UpVectors ==
    {[axis |-> VecNeg(VecY), len |-> FromInt(2)],
     [axis |-> VecZ, len |-> TinyLen]}

LookVectors ==
    {[axis |-> VecX, len |-> FromInt(2)],
     [axis |-> VecY, len |-> FromInt(2)],
     [axis |-> VecX, len |-> FZero]}


SplitOptions ==
    {[kind |-> "Absolute", far_planes |-> <<FromInt(10), FromInt(30), FromInt(100)>>],
     [kind |-> "Absolute", far_planes |-> <<FromInt(5), FromInt(5), FromInt(64)>>],
     [kind |-> "Absolute", far_planes |-> <<FromInt(64), FromInt(64), FromInt(100)>>],
     [kind |-> "Absolute", far_planes |-> <<FromInt(30), FromInt(10), FromInt(200)>>],
     [kind |-> "Relative", fractions |-> <<F0_1, F0_3, F0_6>>]}

\* The scene: camera, split options of the light and frame size stay as they
\* are from frame to frame; the light turns.
Scenes == [camera : Cameras, split_options : SplitOptions, frame_size : FrameSizes]

\* The directional light of a frame: its orientation, and the split options
\* of the scene.
LightsOf(split_options) ==
    [up_vector : UpVectors, look_vector : LookVectors,
     csm_options : {[split_options |-> split_options]}]

BundleStats == {[draw_calls |-> 1, triangles_rendered |-> 12]}

\* ------------------------------------------------------------------- state

VARIABLES
    scene,      \* camera, split options and frame size of the scene
    renderer,   \* the CsmRenderer, when one was constructed
    created,    \* what the last CsmRenderer::new returned and asked of the server
    pc,         \* where the current render call stands
    ctx,        \* CsmRenderContext of the current render call
    loc,        \* the locals of the current render call
    log,        \* what the current render call did to the cascades and the backend
    result,     \* what the last render call returned
    frames,     \* render calls made so far
    before      \* what the render call before the current one returned

vars == <<scene, renderer, created, pc, ctx, loc, log, result, frames, before>>

NoRenderer == [live |-> FALSE]

NoContext == [active |-> FALSE]

NoLocals == [active |-> FALSE]

NoFit == [active |-> FALSE]

NoResult == [kind |-> "none"]

Init ==
    /\ scene \in Scenes
    /\ renderer = NoRenderer
    /\ created = [kind |-> "none"]
    /\ pc = "idle"
    /\ ctx = NoContext
    /\ loc = NoLocals
    /\ log = <<>>
    /\ result = NoResult
    /\ frames = 0
    /\ before = "none"

\* CsmRenderer::new (lines 134-148).
New ==
    /\ pc = "idle"
    /\ ~renderer.live
    /\ \E st \in ShadowMapSettings, server \in ServerAnswers :
          \E r \in {CsmRendererNew(st[1], st[2], server)} :
             /\ renderer' = IF r.ok
                            THEN [live |-> TRUE, precision |-> r.v.precision,
                                  size |-> r.v.size, cascades |-> r.v.cascades]
                            ELSE NoRenderer
             /\ created' = [kind |-> IF r.ok THEN "ok" ELSE "err",
                            error |-> IF r.ok THEN "none" ELSE r.error,
                            size |-> st[1],
                            precision |-> st[2],
                            server |-> server,
                            allocations |-> AllocationsMade(server, 1)]
    /\ UNCHANGED <<scene, pc, ctx, loc, log, result, frames, before>>

\* The owner drops the renderer (to recreate it with another size or precision).
Drop ==
    /\ pc \in {"idle", "done"}
    /\ renderer.live
    /\ renderer' = NoRenderer
    /\ pc' = "idle"
    /\ ctx' = NoContext
    /\ loc' = NoLocals
    /\ log' = <<>>
    /\ result' = NoResult
    /\ before' = "none"
    /\ UNCHANGED <<scene, created, frames>>

\* CsmRenderer::render, lines 162-208: up to the head of the cascade loop.
RenderBegin ==
    /\ pc \in {"idle", "done"}
    /\ renderer.live
    /\ frames < MaxFrames
    /\ \E light \in LightsOf(scene.split_options) :
          /\ ctx' = [active |-> TRUE, camera |-> scene.camera, light |-> light,
                     frame_size |-> scene.frame_size]
          /\ loc' = [active |-> TRUE,
                     stats |-> ZeroStats,
                     light_direction |-> LightDirection(light),
                     light_up_vec |-> LightUpVec(light),
                     z_values |-> ZValues(scene.camera, light.csm_options.split_options),
                     i |-> 0,
                     fit |-> NoFit,
                     bundles_left |-> 0]
    /\ pc' = "loop"
    /\ log' = <<>>
    /\ result' = NoResult
    /\ frames' = frames + 1
    /\ before' = result.kind
    /\ UNCHANGED <<scene, renderer, created>>

\* Line 270: Rect::new(0, 0, size, size).
Viewport(size) == <<0, 0, size, size>>

\* The store of lines 266-268 without the assignment of z_far.
StoreCascadeMatrixOnly(cascades, i, light_view_projection, z_far) ==
    [cascades EXCEPT ![i].view_proj_matrix = light_view_projection]

\* The store of lines 266-268 into the cascades in the opposite order.
StoreCascadeReversed(cascades, i, light_view_projection, z_far) ==
    [cascades EXCEPT ![CSM_NUM_CASCADES - 1 - i].view_proj_matrix = light_view_projection,
                     ![CSM_NUM_CASCADES - 1 - i].z_far = z_far]

\* The store of lines 266-268 that writes only a cascade still holding the
\* matrix of its construction.
StoreCascadeOnlyFresh(cascades, i, light_view_projection, z_far) ==
    IF cascades[i].view_proj_matrix = DefaultMatrix
    THEN [cascades EXCEPT ![i].view_proj_matrix = light_view_projection,
                          ![i].z_far = z_far]
    ELSE cascades

\* Lines 266-268: the matrices of cascade i are overwritten.
StoreCascade(cascades, i, light_view_projection, z_far) ==
    [cascades EXCEPT ![i].view_proj_matrix = light_view_projection,
                     ![i].z_far = z_far]

\* The clear of lines 270-272 aimed at the frame buffer of the first cascade.
ClearCallFirstTarget(cascades, i, size) ==
    [op |-> "clear", i |-> i,
     target |-> cascades[0].frame_buffer.id,
     viewport |-> Viewport(size),
     color |-> None, depth |-> Some(FromInt(1)), stencil |-> None]

\* Lines 270-272: framebuffer.clear(viewport, None, Some(1.0), None) on the
\* frame buffer of cascade i.
ClearCall(cascades, i, size) ==
    [op |-> "clear", i |-> i,
     target |-> cascades[i].frame_buffer.id,
     viewport |-> Viewport(size),
     color |-> None, depth |-> Some(FromInt(1)), stencil |-> None]

\* from_graph with an observer placed at the centre of the frustum.
FromGraphCallObserverAtCenter(i, f, n) ==
    [op |-> "from_graph", i |-> i,
     observer |-> [observer_position |-> FrustumCenter(f.frustum),
                   z_near |-> f.z_near,
                   z_far |-> f.z_far,
                   view_matrix |-> f.light_view_matrix,
                   projection_matrix |-> f.cascade_projection_matrix],
     render_pass_name |-> "DirectionalShadow",
     bundles |-> n]

\* Lines 274-284: RenderDataBundleStorage::from_graph with the observer of
\* cascade i; it returns n bundles.
FromGraphCall(i, f, n) ==
    [op |-> "from_graph", i |-> i,
     observer |-> [observer_position |-> f.observer_position,
                   z_near |-> f.z_near,
                   z_far |-> f.z_far,
                   view_matrix |-> f.light_view_matrix,
                   projection_matrix |-> f.cascade_projection_matrix],
     render_pass_name |-> "DirectionalShadow",
     bundles |-> n]

\* The submission that is given the light view matrix as view-projection.
SubmitCallViewOnly(cascades, i, size, fit, r) ==
    [op |-> "submit", i |-> i,
     target |-> cascades[i].frame_buffer.id,
     render_pass_name |-> "DirectionalShadow",
     viewport |-> Viewport(size),
     view_projection_matrix |-> fit.light_view_matrix,
     camera_up_vector |-> fit.camera_up,
     camera_side_vector |-> fit.camera_side,
     z_near |-> fit.z_near,
     z_far |-> fit.z_far,
     use_pom |-> FALSE,
     light_data |-> None,
     ambient_light |-> "WHITE",
     scene_depth |-> None,
     result |-> r]

\* The submission with parallax mapping left on.
SubmitCallWithPom(cascades, i, size, fit, r) ==
    [op |-> "submit", i |-> i,
     target |-> cascades[i].frame_buffer.id,
     render_pass_name |-> "DirectionalShadow",
     viewport |-> Viewport(size),
     view_projection_matrix |-> fit.light_view_projection,
     camera_up_vector |-> fit.camera_up,
     camera_side_vector |-> fit.camera_side,
     z_near |-> fit.z_near,
     z_far |-> fit.z_far,
     use_pom |-> TRUE,
     light_data |-> None,
     ambient_light |-> "WHITE",
     scene_depth |-> None,
     result |-> r]

\* Lines 287-315: bundle.render_to_frame_buffer with its BundleRenderContext,
\* answered by r.
SubmitCall(cascades, i, size, fit, r) ==
    [op |-> "submit", i |-> i,
     target |-> cascades[i].frame_buffer.id,
     render_pass_name |-> "DirectionalShadow",
     viewport |-> Viewport(size),
     view_projection_matrix |-> fit.light_view_projection,
     camera_up_vector |-> fit.camera_up,
     camera_side_vector |-> fit.camera_side,
     z_near |-> fit.z_near,
     z_far |-> fit.z_far,
     use_pom |-> FALSE,
     light_data |-> None,
     ambient_light |-> "WHITE",
     scene_depth |-> None,
     result |-> r]

\* The submission with its error dropped and the loop going on.
SubmitOutcomeErrorDropped(stats, bundles_left, r) ==
    [returned |-> FALSE,
     stats |-> IF r.ok THEN StatsAdd(stats, r.v) ELSE stats,
     bundles_left |-> bundles_left - 1]

\* Lines 287 and 315: stats += ...?; an error leaves the function with it.
SubmitOutcome(stats, bundles_left, r) ==
    IF r.ok
    THEN [returned |-> FALSE, stats |-> StatsAdd(stats, r.v),
          bundles_left |-> bundles_left - 1]
    ELSE [returned |-> TRUE, error |-> r.error]

\* Lines 211-284: one pass of the loop body for cascade loc.i, up to the
\* bundles RenderDataBundleStorage::from_graph returns.
CascadeBody ==
    /\ pc = "loop"
    /\ loc.i < CSM_NUM_CASCADES
    /\ \E i \in {loc.i} :
       \E f \in {Fit(ctx.camera, ctx.frame_size, loc.light_direction,
                     loc.light_up_vec, loc.z_values, i)} :
          \E inv \in TryInverse(f.light_view_matrix) :
             \/ \* line 262: unwrap of None panics
                /\ ~inv.some
                /\ pc' = "panicked"
                /\ UNCHANGED <<renderer, loc, log, result>>
             \/ /\ inv.some
                /\ \E n \in 0 .. MaxBundles :
                      /\ renderer' =
                             [renderer EXCEPT
                                 !.cascades = StoreCascade(renderer.cascades, i,
                                                           f.light_view_projection, f.z_far)]
                      /\ loc' = [loc EXCEPT
                                    !.fit = [active |-> TRUE,
                                             z_near |-> f.z_near,
                                             z_far |-> f.z_far,
                                             light_view_matrix |-> f.light_view_matrix,
                                             light_view_projection |-> f.light_view_projection,
                                             camera_up |-> MatUp(inv.v),
                                             camera_side |-> MatSide(inv.v)],
                                    !.bundles_left = n]
                      /\ log' = log \o
                            << [op |-> "store", i |-> i],
                               ClearCall(renderer.cascades, i, renderer.size),
                               FromGraphCall(i, f, n) >>
                      /\ pc' = "bundles"
                      /\ UNCHANGED result
    /\ UNCHANGED <<scene, created, ctx, frames, before>>

\* Lines 286-315: one bundle.render_to_frame_buffer and the ? on its result.
SubmitBundle ==
    /\ pc = "bundles"
    /\ loc.bundles_left > 0
    /\ \E r \in {Ok(st) : st \in BundleStats} \cup {Err(e) : e \in FrameworkErrors} :
       \E o \in {SubmitOutcome(loc.stats, loc.bundles_left, r)} :
          /\ log' = Append(log, SubmitCall(renderer.cascades, loc.i, renderer.size,
                                           loc.fit, r))
          /\ IF o.returned
             THEN /\ result' = [kind |-> "err", error |-> o.error]
                  /\ pc' = "done"
                  /\ loc' = NoLocals
             ELSE /\ loc' = [loc EXCEPT !.stats = o.stats,
                                        !.bundles_left = o.bundles_left]
                  /\ UNCHANGED <<pc, result>>
    /\ UNCHANGED <<scene, renderer, created, ctx, frames, before>>

\* Line 316: the bundles of cascade loc.i are through; on to the next cascade.
NextCascade ==
    /\ pc = "bundles"
    /\ loc.bundles_left = 0
    /\ loc' = [loc EXCEPT !.i = loc.i + 1, !.fit = NoFit]
    /\ pc' = "loop"
    /\ UNCHANGED <<scene, renderer, created, ctx, log, result, frames, before>>

\* Line 319: Ok(stats) after the last cascade.
RenderReturn ==
    /\ pc = "loop"
    /\ loc.i = CSM_NUM_CASCADES
    /\ result' = [kind |-> "ok", stats |-> loc.stats]
    /\ pc' = "done"
    /\ loc' = NoLocals
    /\ UNCHANGED <<scene, renderer, created, ctx, log, frames, before>>

Next ==
    \/ New
    \/ Drop
    \/ RenderBegin
    \/ CascadeBody
    \/ SubmitBundle
    \/ NextCascade
    \/ RenderReturn

Spec == Init /\ [][Next]_vars

\* ---------------------------------------------------- the light-space box

\* Lines 229-260 with the numbers in: the frustum of a split is its 8
\* corners, the light view matrix moves them into light space, the box is
\* grown around them, padded in z and handed to new_orthographic.  World
\* coordinates are counted in halves, so that every coordinate and every
\* sum and product of the transform is exact in f32.

\* f32::MAX.
F32_MAX == <<16777215, 127>>

\* n / 2 as an f32.
Halves(n) == Dyadic(n, 1)

\* n further binary digits of rem / d, rem < d: <<digits, remainder>>.
RECURSIVE LongDiv(_, _, _, _)
LongDiv(rem, d, n, acc) ==
    IF n = 0 THEN <<acc, rem>>
    ELSE IF 2 * rem >= d THEN LongDiv(2 * rem - d, d, n - 1, 2 * acc + 1)
    ELSE LongDiv(2 * rem, d, n - 1, 2 * acc)

\* a / b in f32, b not zero: 27 digits of the quotient of the significands,
\* a remainder jammed into the last one, rounded to 24.
FDiv(a, b) ==
    IF a[1] = 0 THEN FZero
    ELSE LET ma == Abs(a[1])
             mb == Abs(b[1])
             qr == LongDiv(ma % mb, mb, 26, ma \div mb)
             Q  == IF qr[2] # 0 /\ qr[1] % 2 = 0 THEN qr[1] + 1 ELSE qr[1]
         IN Pack(Sgn(a[1]) * Sgn(b[1]) * Q, a[2] - b[2] - 26)

\* a <= b on f32 values.
FLessEq(a, b) == ~FLess(b, a)

Dot(u, v) == u[1] * v[1] + u[2] * v[2] + u[3] * v[3]

\* A frustum by its corners: the near face of half extent xn at depth zn,
\* the far face of half extent xf at depth zf (in halves).
FrustumOfCorners(xn, xf, zn, zf) ==
    [kind |-> "corners",
     corners |-> << <<-xn, -xn, zn>>, <<-xn, xn, zn>>, <<xn, xn, zn>>, <<xn, -xn, zn>>,
                    <<-xf, -xf, zf>>, <<-xf, xf, zf>>, <<xf, xf, zf>>, <<xf, -xf, zf>> >>]

\* Frustum::corners().
FrustumCorners(frustum) == frustum.corners

\* The sum of the first k of 8 corners.
RECURSIVE SumOfCorners(_, _)
SumOfCorners(corners, k) ==
    IF k = 0 THEN <<0, 0, 0>> ELSE VecAdd(SumOfCorners(corners, k - 1), corners[k])

\* The coordinates (in halves) of Frustum::center(): the mean of the corners.
Centroid(frustum) ==
    <<SumOfCorners(frustum.corners, 8)[1] \div 8,
      SumOfCorners(frustum.corners, 8)[2] \div 8,
      SumOfCorners(frustum.corners, 8)[3] \div 8>>

\* The coordinates (in halves) of a point: the centre of its frustum plus
\* its offset of whole units.
PointCoords(p) ==
    VecAdd(Centroid(p.base), <<2 * p.off[1], 2 * p.off[2], 2 * p.off[3]>>)

NanPoint == [nan |-> TRUE, v |-> <<FZero, FZero, FZero>>]

\* Matrix4::transform_point of a view matrix: the coordinates of the corner
\* along the three axes, seen from the eye; NaN throughout for a NaN matrix.
TransformPoint(m, corner) ==
    IF m.kind = "nan" THEN NanPoint
    ELSE [nan |-> FALSE,
          v |-> <<Halves(Dot(m.xaxis, VecSub(corner, PointCoords(m.eye)))),
                  Halves(Dot(m.yaxis, VecSub(corner, PointCoords(m.eye)))),
                  Halves(Dot(m.zaxis, VecSub(corner, PointCoords(m.eye))))>>]

\* AxisAlignedBoundingBox::default(): the box that holds no point.
DefaultAabb ==
    [min |-> <<F32_MAX, F32_MAX, F32_MAX>>,
     max |-> <<<<-16777215, 127>>, <<-16777215, 127>>, <<-16777215, 127>>>>]

\* AxisAlignedBoundingBox::add_point: each bound moves to the point when the
\* point is beyond it; every comparison with NaN is false.
AddPoint(aabb, p) ==
    IF p.nan THEN aabb
    ELSE [min |-> [k \in 1 .. 3 |-> IF FLess(p.v[k], aabb.min[k]) THEN p.v[k]
                                    ELSE aabb.min[k]],
          max |-> [k \in 1 .. 3 |-> IF FLess(aabb.max[k], p.v[k]) THEN p.v[k]
                                    ELSE aabb.max[k]]]

\* The padding of lines 245-256 on the near side only.
PadZMinOnly(aabb) ==
    [min |-> <<aabb.min[1], aabb.min[2],
               IF FLess(aabb.min[3], FZero) THEN FMul(aabb.min[3], FromInt(10))
               ELSE FDiv(aabb.min[3], FromInt(10))>>,
     max |-> aabb.max]

\* The padding of lines 245-256 with the two branches of max.z exchanged.
PadZMaxInward(aabb) ==
    [min |-> <<aabb.min[1], aabb.min[2],
               IF FLess(aabb.min[3], FZero) THEN FMul(aabb.min[3], FromInt(10))
               ELSE FDiv(aabb.min[3], FromInt(10))>>,
     max |-> <<aabb.max[1], aabb.max[2],
               IF FLess(aabb.max[3], FZero) THEN FMul(aabb.max[3], FromInt(10))
               ELSE FDiv(aabb.max[3], FromInt(10))>>]

\* Lines 245-256: z_mult = 10.0; min.z and max.z are pushed apart.
PadZ(aabb) ==
    [min |-> <<aabb.min[1], aabb.min[2],
               IF FLess(aabb.min[3], FZero) THEN FMul(aabb.min[3], FromInt(10))
               ELSE FDiv(aabb.min[3], FromInt(10))>>,
     max |-> <<aabb.max[1], aabb.max[2],
               IF FLess(aabb.max[3], FZero) THEN FDiv(aabb.max[3], FromInt(10))
               ELSE FMul(aabb.max[3], FromInt(10))>>]

\* The frusta of the box specification: a box of half extent 1/2, and
\* frusta of far half extent 1, 5/2 and 7/2.
Frusta ==
    {FrustumOfCorners(1, 1, 2, 4), FrustumOfCorners(1, 2, 2, 6),
     FrustumOfCorners(1, 5, 2, 10), FrustumOfCorners(2, 7, 4, 12)}

BoxLights == [up_vector : UpVectors, look_vector : LookVectors]

\* A frustum and a light are given; nothing is computed yet.
InitBox ==
    /\ scene \in [frustum : Frusta]
    /\ ctx \in [active : {TRUE}, light : BoxLights]
    /\ renderer = NoRenderer
    /\ created = [kind |-> "none"]
    /\ pc = "look_at"
    /\ loc = NoLocals
    /\ log = <<>>
    /\ result = NoResult
    /\ frames = 0
    /\ before = "none"

\* Lines 229-237: the light view matrix and the empty box.
BoxLookAt ==
    /\ pc = "look_at"
    /\ \E center \in {FrustumCenter(scene.frustum)} :
          loc' = [active |-> TRUE,
                  light_view_matrix |->
                      LookAtLh(PointAdd(center, LightDirection(ctx.light)), center,
                               LightUpVec(ctx.light)),
                  k |-> 1,
                  aabb |-> DefaultAabb,
                  padded |-> FALSE,
                  projection |-> DefaultMatrix]
    /\ pc' = "corners"
    /\ UNCHANGED <<scene, renderer, created, ctx, log, result, frames, before>>

\* Lines 238-243: one corner is moved into light space and added to the box.
BoxAddCorner ==
    /\ pc = "corners"
    /\ loc.k <= 8
    /\ \E corner \in {FrustumCorners(scene.frustum)[loc.k]} :
          /\ loc' = [loc EXCEPT
                        !.aabb = AddPoint(loc.aabb,
                                          TransformPoint(loc.light_view_matrix, corner)),
                        !.k = loc.k + 1]
          /\ log' = Append(log, TransformPoint(loc.light_view_matrix, corner))
    /\ UNCHANGED <<scene, renderer, created, pc, ctx, result, frames, before>>

\* Lines 245-256: the z padding; the box as it was is kept in the log.
BoxPad ==
    /\ pc = "corners"
    /\ loc.k = 9
    /\ loc' = [loc EXCEPT !.aabb = PadZ(loc.aabb), !.padded = TRUE]
    /\ log' = Append(log, loc.aabb)
    /\ pc' = "ortho"
    /\ UNCHANGED <<scene, renderer, created, ctx, result, frames, before>>

\* Lines 258-260: the orthographic projection of the six bounds.
BoxOrtho ==
    /\ pc = "ortho"
    /\ loc' = [loc EXCEPT !.projection = NewOrthographic(loc.aabb)]
    /\ pc' = "fitted"
    /\ UNCHANGED <<scene, renderer, created, ctx, log, result, frames, before>>

NextBox ==
    \/ BoxLookAt
    \/ BoxAddCorner
    \/ BoxPad
    \/ BoxOrtho

SpecBox == InitBox /\ [][NextBox]_vars

\* ------------------------------------------------------------------ claims

LogIndices == 1 .. Len(log)

\* What the render call in progress (or the last one) computes for cascade i
\* from its own inputs.
ThisFrame(i) ==
    Fit(ctx.camera, ctx.frame_size, LightDirection(ctx.light), LightUpVec(ctx.light),
        ZValues(ctx.camera, ctx.light.csm_options.split_options), i)

IsAbsolute == ctx.light.csm_options.split_options.kind = "Absolute"

FarPlanes == ctx.light.csm_options.split_options.far_planes

Fractions == ctx.light.csm_options.split_options.fractions

\* C1: CsmRenderer::new gives a renderer of exactly 3 cascades when all six
\* allocations succeed, and otherwise returns the error of the first failing
\* allocation and no renderer; a live renderer has 3 cascades in every state,
\* whatever render calls were made.
C1_NewAllOrNothing ==
    /\ created.kind = "err" =>
          /\ ~renderer.live
          /\ \E k \in 1 .. 6 :
                /\ ~created.server[k].ok
                /\ \A j \in 1 .. (k - 1) : created.server[j].ok
                /\ created.error = created.server[k].error
                /\ created.allocations = k
    /\ created.kind = "ok" => \A k \in 1 .. 6 : created.server[k].ok
    /\ renderer.live =>
          /\ created.kind = "ok"
          /\ DOMAIN renderer.cascades = {0, 1, 2}
          /\ Cardinality(DOMAIN renderer.cascades) = 3
          /\ \A i \in DOMAIN renderer.cascades :
                /\ renderer.cascades[i].frame_buffer.id = i
                /\ renderer.cascades[i].frame_buffer.depth.width = renderer.size

\* C1 witness: the third and the fifth allocation fail with different
\* errors; the error of the third came back and there is no renderer.
C1_Witness ==
    /\ created.kind = "err"
    /\ created.server[3] = Err("Unsupported")
    /\ created.server[5] = Err("OutOfMemory")
    /\ created.error = "Unsupported"
    /\ ~renderer.live

Stored(i) ==
    /\ \E k \in LogIndices : log[k].op = "store" /\ log[k].i = i
    /\ LET f == ThisFrame(i)
       IN /\ renderer.cascades[i].view_proj_matrix = f.light_view_projection
          /\ renderer.cascades[i].z_far = f.z_far

Cleared(i) ==
    \E k \in LogIndices :
       log[k].op = "clear" /\ log[k].target = renderer.cascades[i].frame_buffer.id

\* C2 as stated: after every render call that returned, each of the 3
\* cascades holds the matrix and z_far of this call and its depth target was
\* cleared in this call.
C2_EveryCallOverwritesAll ==
    pc = "done" => \A i \in CascadeIndices : Stored(i) /\ Cleared(i)

\* C2 amended: after every render call that returned Ok, each of the 3
\* cascades holds the matrix and z_far of this call and its depth target was
\* cleared in this call.
C2_OkCallOverwritesAll ==
    (pc = "done" /\ result.kind = "ok") =>
        \A i \in CascadeIndices : Stored(i) /\ Cleared(i)

\* C2 witness: a second frame returned Ok.
C2_Witness ==
    /\ pc = "done"
    /\ result.kind = "ok"
    /\ frames = 2
    /\ \A i \in CascadeIndices : Stored(i) /\ Cleared(i)

\* C3 as stated: render never panics, and a submission made with a light
\* view matrix that has no inverse gets the unit vectors (0,1,0) and (1,0,0)
\* as up and side vectors.
C3_NoPanicDefaultsOnSingular ==
    /\ pc # "panicked"
    /\ \A k \in LogIndices :
          (log[k].op = "submit" /\ log[k].view_projection_matrix.kind = "nan") =>
              /\ log[k].camera_up_vector = [finite |-> TRUE, v |-> VecY]
              /\ log[k].camera_side_vector = [finite |-> TRUE, v |-> VecX]

\* The light forward direction and the up hint normalize to the same axis.
ForwardIsUpHint ==
    LET u == TryNormalize(ctx.light.up_vector, F32_EPSILON)
        l == TryNormalize(ctx.light.look_vector, F32_EPSILON)
    IN u.some /\ l.some /\ VecNeg(u.v) = l.v

\* C4 as stated: when the light forward direction and the up hint normalize
\* to the same axis, the up hint given to look_at is (0,0,1) and the light
\* view matrix of the cascade is not singular.
C4_SameAxisFallsBack ==
    (loc.active /\ ForwardIsUpHint) =>
        /\ loc.light_up_vec = VecZ
        /\ loc.fit.active => loc.fit.light_view_matrix.kind # "nan"

\* C5 as stated: 4 boundaries, the first the near plane of the camera, the
\* last the far plane of the camera (Absolute) or far * fractions[2]
\* (Relative).
C5_LastIsCameraFar ==
    loc.active =>
        /\ DOMAIN loc.z_values = 0 .. 3
        /\ loc.z_values[0] = ctx.camera.z_near
        /\ loc.z_values[3] = IF IsAbsolute THEN ctx.camera.z_far
                             ELSE FMul(ctx.camera.z_far, Fractions[3])

\* C5 amended: 4 boundaries, the first the near plane of the camera, the
\* last far_planes[2] (Absolute) or far * fractions[2] (Relative).
C5_LastIsLastPlane ==
    loc.active =>
        /\ DOMAIN loc.z_values = 0 .. 3
        /\ loc.z_values[0] = ctx.camera.z_near
        /\ loc.z_values[3] = IF IsAbsolute THEN FarPlanes[3]
                             ELSE FMul(ctx.camera.z_far, Fractions[3])

\* C5 witness: an Absolute policy whose last plane, 200.0, is not the far
\* plane of the camera, in a call that reached its last cascade.
C5_Witness ==
    /\ loc.active
    /\ IsAbsolute
    /\ FarPlanes[3] = FromInt(200)
    /\ ctx.camera.z_far = FromInt(100)
    /\ loc.z_values[3] = FromInt(200)
    /\ loc.i = 2

\* C6 as stated: the depth range of every cascade, after the guard against
\* equal planes, is strictly positive.
C6_RangePositive ==
    (loc.active /\ loc.fit.active) => FLess(loc.fit.z_near, loc.fit.z_far)

\* C7: boundaries 1..3 are the far planes as given (Absolute) or the far
\* plane of the camera times the fractions as given (Relative): nothing is
\* sorted, clamped or bounded by the far plane of the camera.
C7_PlanesAsGiven ==
    loc.active =>
        \A k \in 1 .. 3 :
           loc.z_values[k] = IF IsAbsolute THEN FarPlanes[k]
                             ELSE FMul(ctx.camera.z_far, Fractions[k])

\* C7 witness: far planes 30, 10, 200 with a camera far plane of 100 are
\* used in that order by the cascade loop.
C7_Witness ==
    /\ loc.active
    /\ IsAbsolute
    /\ FLess(FarPlanes[2], FarPlanes[1])
    /\ FLess(ctx.camera.z_far, FarPlanes[3])
    /\ loc.fit.active
    /\ loc.i = 1
    /\ loc.fit.z_near = FromInt(30)
    /\ loc.fit.z_far = FromInt(10)

C9_ErrorEndsCall ==
    /\ \A k \in LogIndices :
          (log[k].op = "submit" /\ ~log[k].result.ok) =>
              /\ k = Len(log)
              /\ pc = "done"
              /\ result.kind = "err"
              /\ result.error = log[k].result.error
    /\ (pc = "done" /\ result.kind = "err") =>
          /\ Len(log) > 0
          /\ log[Len(log)].op = "submit"
          /\ ~log[Len(log)].result.ok

\* C9 witness: in a second frame the bundle of cascade 1 fails with
\* Unsupported after the bundle of cascade 0 was drawn; the call returned
\* Unsupported and cascade 2 was not touched.
C9_Witness ==
    /\ frames = 2
    /\ pc = "done"
    /\ result.kind = "err"
    /\ result.error = "Unsupported"
    /\ Len(log) = 8
    /\ log[4].op = "submit" /\ log[4].result.ok
    /\ log[8].op = "submit" /\ log[8].i = 1
    /\ \A k \in LogIndices : log[k].i # 2

\* C10: the log of a render call runs through the cascades in index order,
\* and for each cascade in the order store, clear (once, depth 1.0, no
\* colour, no stencil, viewport (0,0,size,size), its own target),
\* from_graph, submissions (into its own target, after its clear).
C10_CascadeOrder ==
    \A k \in LogIndices :
       /\ log[k].i \in CascadeIndices
       /\ k = 1 => (log[k].op = "store" /\ log[k].i = 0)
       /\ k > 1 => \/ log[k].i = log[k - 1].i
                   \/ /\ log[k].i = log[k - 1].i + 1
                      /\ log[k].op = "store"
                      /\ log[k - 1].op \in {"from_graph", "submit"}
       /\ log[k].op = "store" =>
             /\ k < Len(log)
             /\ log[k + 1].op = "clear"
             /\ log[k + 1].i = log[k].i
       /\ log[k].op = "clear" =>
             /\ log[k - 1].op = "store"
             /\ log[k - 1].i = log[k].i
             /\ log[k].target = renderer.cascades[log[k].i].frame_buffer.id
             /\ log[k].viewport = <<0, 0, renderer.size, renderer.size>>
             /\ log[k].color = None
             /\ log[k].depth = Some(FromInt(1))
             /\ log[k].stencil = None
             /\ \A j \in LogIndices :
                   (log[j].op = "clear" /\ log[j].target = log[k].target) => j = k
       /\ log[k].op = "from_graph" =>
             /\ log[k - 1].op = "clear"
             /\ log[k - 1].i = log[k].i
       /\ log[k].op = "submit" =>
             /\ log[k - 1].op \in {"from_graph", "submit"}
             /\ log[k - 1].i = log[k].i
             /\ log[k].target = renderer.cascades[log[k].i].frame_buffer.id
             /\ \A j \in CascadeIndices :
                   j # log[k].i => log[k].target # renderer.cascades[j].frame_buffer.id
             /\ \E c \in 1 .. (k - 1) :
                   log[c].op = "clear" /\ log[c].target = log[k].target

\* C10 witness: a call that returned Ok after one bundle in each cascade.
C10_Witness ==
    /\ pc = "done"
    /\ result.kind = "ok"
    /\ Len(log) = 12
    /\ log[4].op = "submit" /\ log[4].i = 0
    /\ log[8].op = "submit" /\ log[8].i = 1
    /\ log[12].op = "submit" /\ log[12].i = 2

\* The sum, from the zero value, of the statistics returned by the
\* submissions log[1..k] of the call.
RECURSIVE SumOfSubmissions(_)
SumOfSubmissions(k) ==
    IF k = 0 THEN [draw_calls |-> 0, triangles_rendered |-> 0]
    ELSE LET earlier == SumOfSubmissions(k - 1)
         IN IF log[k].op = "submit" /\ log[k].result.ok
            THEN [draw_calls |-> earlier.draw_calls + log[k].result.v.draw_calls,
                  triangles_rendered |-> earlier.triangles_rendered
                                            + log[k].result.v.triangles_rendered]
            ELSE earlier

\* C11: the statistics a call returns with Ok are the sum of what the
\* submissions of this call returned, counted from zero (the running total of
\* a call in progress likewise), and neither count is negative.
C11_StatsAreSumOfCall ==
    /\ loc.active => loc.stats = SumOfSubmissions(Len(log))
    /\ (pc = "done" /\ result.kind = "ok") =>
          /\ result.stats = SumOfSubmissions(Len(log))
          /\ result.stats.draw_calls >= 0
          /\ result.stats.triangles_rendered >= 0
          /\ \A i \in CascadeIndices :
                \E k \in LogIndices : log[k].op = "from_graph" /\ log[k].i = i

\* C11 witness: a second frame returned Ok after two submissions, cascade 1
\* having had no bundle; the total is that of the two.
C11_Witness ==
    /\ frames = 2
    /\ pc = "done"
    /\ result.kind = "ok"
    /\ Len(log) = 11
    /\ log[4].op = "submit" /\ log[4].i = 0
    /\ log[11].op = "submit" /\ log[11].i = 2
    /\ result.stats = [draw_calls |-> 2, triangles_rendered |-> 24]

\* The call in progress, or the last one, is the one of the end-to-end
\* scenario: camera near 0.1 and far 100.0, Relative fractions 0.1, 0.3, 0.6.
IsRelativeScenario ==
    /\ ctx.active
    /\ ctx.camera.z_near = F0_1
    /\ ctx.camera.z_far = FromInt(100)
    /\ ~IsAbsolute
    /\ Fractions = <<F0_1, F0_3, F0_6>>

\* The split plan of the call: its boundaries 0..3.
Boundaries == ZValues(ctx.camera, ctx.light.csm_options.split_options)

Boundary(k) == Boundaries[k]

\* C12 as stated: after a call that returned Ok, z_far of cascade i is
\* boundary i+1 after the guard, and in the scenario the boundaries are
\* 0.1, 10.0, 30.0, 60.0 and the cascades hold 10.0, 30.0, 60.0.
C12_ScenarioExactDecimals ==
    /\ (pc = "done" /\ result.kind = "ok") =>
          LET zv == Boundaries
          IN \A i \in CascadeIndices :
                renderer.cascades[i].z_far =
                   IF zv[i + 1] = zv[i] THEN FAdd(zv[i + 1], TenEpsilon) ELSE zv[i + 1]
    /\ (loc.active /\ IsRelativeScenario) =>
          loc.z_values = [k \in 0 .. 3 |->
                             IF k = 0 THEN F0_1 ELSE IF k = 1 THEN FromInt(10)
                             ELSE IF k = 2 THEN FromInt(30) ELSE FromInt(60)]
    /\ (pc = "done" /\ result.kind = "ok" /\ IsRelativeScenario) =>
          /\ renderer.cascades[0].z_far = FromInt(10)
          /\ renderer.cascades[1].z_far = FromInt(30)
          /\ renderer.cascades[2].z_far = FromInt(60)

\* C12 amended: after a call that returned Ok, z_far of cascade i is
\* boundary i+1 after the guard, and in the scenario the boundaries are the
\* f32 products 0.1, 10.0, 30.000002 (15728641 * 2^-19) and 60.000004
\* (15728641 * 2^-18), which the cascades hold as z_far.
C12_ZFarIsBoundaryOfSplit ==
    /\ (pc = "done" /\ result.kind = "ok") =>
          LET zv == Boundaries
          IN \A i \in CascadeIndices :
                renderer.cascades[i].z_far =
                   IF zv[i + 1] = zv[i] THEN FAdd(zv[i + 1], TenEpsilon) ELSE zv[i + 1]
    /\ (loc.active /\ IsRelativeScenario) =>
          loc.z_values = [k \in 0 .. 3 |->
                             IF k = 0 THEN F0_1 ELSE IF k = 1 THEN <<10485760, 3>>
                             ELSE IF k = 2 THEN <<15728641, 4>> ELSE <<15728641, 5>>]
    /\ (pc = "done" /\ result.kind = "ok" /\ IsRelativeScenario) =>
          /\ renderer.cascades[0].z_far = <<10485760, 3>>
          /\ renderer.cascades[1].z_far = <<15728641, 4>>
          /\ renderer.cascades[2].z_far = <<15728641, 5>>

\* C12 witness: the scenario ran to Ok and cascade 1 holds a z_far that is
\* above 30.0.
C12_Witness ==
    /\ pc = "done"
    /\ result.kind = "ok"
    /\ IsRelativeScenario
    /\ renderer.cascades[0].z_far = FromInt(10)
    /\ FLess(FromInt(30), renderer.cascades[1].z_far)
    /\ FLess(FromInt(60), renderer.cascades[2].z_far)

\* C13 as stated: for a split whose two boundaries are equal the far plane
\* used is near + 10 * epsilon and differs from near, in the fit, in z_far of
\* the cascade and in what the backend is given; for a split whose boundaries
\* differ the far plane is used as it is.
C13_NudgedFarDiffers ==
    (loc.active /\ loc.fit.active) =>
        /\ loc.fit.z_near = loc.z_values[loc.i]
        /\ IF loc.z_values[loc.i + 1] = loc.z_values[loc.i]
           THEN /\ loc.fit.z_far = FAdd(loc.fit.z_near, TenEpsilon)
                /\ loc.fit.z_far # loc.fit.z_near
                /\ renderer.cascades[loc.i].z_far # loc.fit.z_near
                /\ \A k \in LogIndices :
                      (log[k].op = "from_graph" /\ log[k].i = loc.i) =>
                          log[k].observer.z_far # log[k].observer.z_near
                /\ \A k \in LogIndices :
                      (log[k].op = "submit" /\ log[k].i = loc.i) =>
                          log[k].z_far # log[k].z_near
           ELSE loc.fit.z_far = loc.z_values[loc.i + 1]

\* C14: a live renderer reports the size and precision it was constructed
\* with, and its 3 depth targets are D32F for Full and D16 for Half, of
\* size x size; no step taken on a live renderer changes size, precision or
\* a depth target.
C14_FormatFixedAtConstruction ==
    /\ [](renderer.live =>
            /\ SizeOf(renderer) = created.size
            /\ PrecisionOf(renderer) = created.precision
            /\ \A i \in CascadeIndices :
                  /\ renderer.cascades[i].frame_buffer.depth.kind =
                        IF created.precision = "Full" THEN "D32F" ELSE "D16"
                  /\ renderer.cascades[i].frame_buffer.depth.width = created.size
                  /\ renderer.cascades[i].frame_buffer.depth.height = created.size)
    /\ [][(renderer.live /\ renderer'.live) =>
            /\ renderer'.size = renderer.size
            /\ renderer'.precision = renderer.precision
            /\ \A i \in CascadeIndices :
                  renderer'.cascades[i].frame_buffer = renderer.cascades[i].frame_buffer]_vars

\* C14 witness: a renderer constructed with Half and 1024 after two render
\* calls, the second returned Ok: D16 targets of 1024 x 1024.
C14_Witness ==
    /\ renderer.live
    /\ created.precision = "Half"
    /\ created.size = 1024
    /\ frames = 2
    /\ pc = "done"
    /\ result.kind = "ok"
    /\ SizeOf(renderer) = 1024
    /\ PrecisionOf(renderer) = "Half"
    /\ \A i \in CascadeIndices :
          renderer.cascades[i].frame_buffer.depth.kind = "D16"

\* What a render call with the inputs of ctx leaves in cascade i: a function
\* of camera, light, frame size and split policy alone.
LeftByCall(i) ==
    LET f == ThisFrame(i)
    IN [view_proj_matrix |-> f.light_view_projection, z_far |-> f.z_far]

HeldBy(i) ==
    [view_proj_matrix |-> renderer.cascades[i].view_proj_matrix,
     z_far |-> renderer.cascades[i].z_far]

\* C15 as stated: whatever a render call found in the cascades, when it has
\* returned every cascade holds the matrix and z_far that are a function of
\* the inputs of the call alone.
C15_AnyCallHistoryFree ==
    pc = "done" => \A i \in CascadeIndices : HeldBy(i) = LeftByCall(i)

\* C15 amended: whatever a render call found in the cascades (those of the
\* construction, of an earlier Ok call or of an earlier failed call), when it
\* has returned Ok every cascade holds the matrix and z_far that are a
\* function of the inputs of the call alone.
C15_OkCallHistoryFree ==
    (pc = "done" /\ result.kind = "ok" /\ before \in {"none", "ok", "err"}) =>
        \A i \in CascadeIndices : HeldBy(i) = LeftByCall(i)

\* C15 witness: a call returned Ok after a call that had failed.
C15_Witness ==
    /\ pc = "done"
    /\ result.kind = "ok"
    /\ before = "err"
    /\ frames = 2
    /\ \A i \in CascadeIndices : HeldBy(i) = LeftByCall(i)

\* The fit of one split taken by itself: of camera, light, frame size and
\* the two boundaries zn, zf, with no other boundary and no cascade index.
FitOfPair(zn, zf) ==
    Fit(ctx.camera, ctx.frame_size, LightDirection(ctx.light), LightUpVec(ctx.light),
        [k \in 0 .. 1 |-> IF k = 0 THEN zn ELSE zf], 0)

WrittenInThisCall(i) == \E k \in LogIndices : log[k].op = "store" /\ log[k].i = i

\* C16: the matrix and z_far a call writes into cascade i, and what it
\* hands to the backend for cascade i, are those of the fit of the pair
\* (boundaries[i], boundaries[i+1]) taken by itself, whatever the other
\* cascades hold and whatever the other boundaries are.
C16_FitOfOwnPairOnly ==
    ctx.active =>
        LET zv == Boundaries
        IN \A i \in CascadeIndices :
              WrittenInThisCall(i) =>
                 LET f == FitOfPair(zv[i], zv[i + 1])
                 IN /\ renderer.cascades[i].view_proj_matrix = f.light_view_projection
                    /\ renderer.cascades[i].z_far = f.z_far
                    /\ \A k \in LogIndices :
                          /\ (log[k].op = "from_graph" /\ log[k].i = i) =>
                                /\ log[k].observer.view_matrix = f.light_view_matrix
                                /\ log[k].observer.projection_matrix =
                                      f.cascade_projection_matrix
                          /\ (log[k].op = "submit" /\ log[k].i = i) =>
                                log[k].view_projection_matrix = f.light_view_projection

\* C16 witness: far planes 5, 5, 64; cascade 1 was fitted with its far plane
\* nudged, cascade 2 is fitted from 5.0 itself, in a call that follows an Ok
\* call.
C16_Witness ==
    /\ loc.active
    /\ loc.i = 2
    /\ loc.fit.active
    /\ before = "ok"
    /\ Boundary(1) = FromInt(5)
    /\ Boundary(2) = FromInt(5)
    /\ renderer.cascades[1].z_far # FromInt(5)
    /\ loc.fit.z_near = FromInt(5)
    /\ renderer.cascades[2].z_far = FromInt(64)
    /\ renderer.cascades[2].view_proj_matrix =
          FitOfPair(FromInt(5), FromInt(64)).light_view_projection

\* The corners of the frustum as the light view matrix placed them: the
\* first 8 entries of the log of the box specification.
Placed(k) == log[k]

\* The box before the z padding: entry 9 of the log.
Unpadded == log[9]

\* C17 as stated: the box before the z padding holds each of the 8 corners
\* moved into light space: min <= corner <= max on each axis (a comparison
\* with NaN being false).
C17_BoxHoldsCorners ==
    (pc \in {"ortho", "fitted"}) =>
        \A k \in 1 .. 8 :
           /\ ~Placed(k).nan
           /\ \A a \in 1 .. 3 :
                 /\ FLessEq(Unpadded.min[a], Placed(k).v[a])
                 /\ FLessEq(Placed(k).v[a], Unpadded.max[a])

\* C18: after the padding min.z is min.z * 10 when it was below 0 and
\* min.z / 10 otherwise, max.z is max.z / 10 when it was below 0 and
\* max.z * 10 otherwise, the x and y bounds are as they were, and the
\* orthographic projection is that of exactly these six bounds.
C18_PadBySignRule ==
    (pc \in {"ortho", "fitted"}) =>
        /\ loc.aabb.min[1] = Unpadded.min[1]
        /\ loc.aabb.min[2] = Unpadded.min[2]
        /\ loc.aabb.max[1] = Unpadded.max[1]
        /\ loc.aabb.max[2] = Unpadded.max[2]
        /\ loc.aabb.min[3] =
              IF FLess(Unpadded.min[3], FZero) THEN FMul(Unpadded.min[3], FromInt(10))
              ELSE FDiv(Unpadded.min[3], FromInt(10))
        /\ loc.aabb.max[3] =
              IF FLess(Unpadded.max[3], FZero) THEN FDiv(Unpadded.max[3], FromInt(10))
              ELSE FMul(Unpadded.max[3], FromInt(10))
        /\ pc = "fitted" =>
              /\ loc.projection.kind = "ortho"
              /\ loc.projection.box.min = loc.aabb.min
              /\ loc.projection.box.max = loc.aabb.max
              /\ loc.projection.box.min[1] = Unpadded.min[1]
              /\ loc.projection.box.max[2] = Unpadded.max[2]

\* C18 witness: a box from -1.5 to 3.5 in z and -2.5 to 2.5 in x is padded
\* to -15.0 .. 35.0 with x as it was, and projected.
C18_Witness ==
    /\ pc = "fitted"
    /\ Unpadded.min[3] = Dyadic(-3, 1)
    /\ Unpadded.max[3] = Dyadic(7, 1)
    /\ loc.aabb.min[3] = FromInt(-15)
    /\ loc.aabb.max[3] = FromInt(35)
    /\ loc.aabb.min[1] = Dyadic(-5, 1)
    /\ loc.projection.box = loc.aabb

\* C19: for a box with min.z <= max.z the padding moves min.z down or
\* leaves it, moves max.z up or leaves it, keeps min.z <= max.z and keeps
\* every placed corner inside; each bound that is not 0 moves strictly.
C19_PadOnlyWidens ==
    (pc \in {"ortho", "fitted"} /\ FLessEq(Unpadded.min[3], Unpadded.max[3])) =>
        /\ FLessEq(loc.aabb.min[3], Unpadded.min[3])
        /\ FLessEq(Unpadded.max[3], loc.aabb.max[3])
        /\ FLessEq(loc.aabb.min[3], loc.aabb.max[3])
        /\ Unpadded.min[3] # FZero => FLess(loc.aabb.min[3], Unpadded.min[3])
        /\ Unpadded.max[3] # FZero => FLess(Unpadded.max[3], loc.aabb.max[3])
        /\ \A k \in 1 .. 8 :
              ~Placed(k).nan =>
                  \A a \in 1 .. 3 :
                     /\ FLessEq(loc.aabb.min[a], Placed(k).v[a])
                     /\ FLessEq(Placed(k).v[a], loc.aabb.max[a])

\* C19 witness: a box from 0.5 to 1.5 in z is padded to 0.05 .. 15.0.
C19_Witness ==
    /\ pc = "ortho"
    /\ Unpadded.min[3] = Dyadic(1, 1)
    /\ Unpadded.max[3] = Dyadic(3, 1)
    /\ loc.aabb.min[3] = <<13421773, -5>>
    /\ loc.aabb.max[3] = FromInt(15)
    /\ \E k \in 1 .. 8 : Placed(k).v[3] = Dyadic(1, 1)

\* The ObserverInfo handed over for cascade i in the call so far.
ObserversOf(i) == {k \in LogIndices : log[k].op = "from_graph" /\ log[k].i = i}

\* Every ObserverInfo of the call goes with the directional shadow pass tag
\* and has the five fields of the fit of its cascade.
ObserversAsFitted ==
    ctx.active =>
        LET zv == Boundaries
        IN \A i \in CascadeIndices :
              ObserversOf(i) # {} =>
                 LET f == ThisFrame(i)
                 IN \A k \in ObserversOf(i) :
                       /\ log[k].render_pass_name = "DirectionalShadow"
                       /\ log[k].observer.observer_position =
                             PointAdd(FrustumCenter(f.frustum), LightDirection(ctx.light))
                       /\ log[k].observer.z_near = zv[i]
                       /\ log[k].observer.z_far =
                             IF zv[i + 1] = zv[i] THEN FAdd(zv[i + 1], TenEpsilon)
                             ELSE zv[i + 1]
                       /\ log[k].observer.view_matrix = f.light_view_matrix
                       /\ log[k].observer.projection_matrix = f.cascade_projection_matrix

\* C20 as stated: a call that has returned handed over exactly one
\* ObserverInfo for each of the 3 cascades, each with the pass tag and the
\* five fields of the fit of its cascade.
C20_OnePerCascadeEveryFrame ==
    /\ ObserversAsFitted
    /\ pc = "done" => \A i \in CascadeIndices : Cardinality(ObserversOf(i)) = 1

\* C20 amended: a call hands over at most one ObserverInfo per cascade, one
\* for each cascade it reaches, and exactly one for each of the 3 cascades
\* when it returns Ok, each with the pass tag and the five fields of the fit
\* of its cascade.
C20_OnePerCascadeReached ==
    /\ ObserversAsFitted
    /\ \A i \in CascadeIndices :
          /\ Cardinality(ObserversOf(i)) <= 1
          /\ WrittenInThisCall(i) => Cardinality(ObserversOf(i)) = 1
    /\ (pc = "done" /\ result.kind = "ok") =>
          \A i \in CascadeIndices : Cardinality(ObserversOf(i)) = 1

\* C20 witness: a second call returned Ok; the observer of cascade 1, whose
\* far plane was nudged from 5.0, sits one unit along the light direction
\* from the centre of its frustum.
C20_Witness ==
    /\ pc = "done"
    /\ result.kind = "ok"
    /\ frames = 2
    /\ Boundary(1) = FromInt(5)
    /\ Boundary(2) = FromInt(5)
    /\ \A i \in CascadeIndices : Cardinality(ObserversOf(i)) = 1
    /\ \E k \in ObserversOf(1) :
          /\ log[k].observer.z_near = FromInt(5)
          /\ FLess(FromInt(5), log[k].observer.z_far)
          /\ log[k].observer.observer_position.off = LightDirection(ctx.light)

\* C21: for each cascade written in the call, the matrix stored in the
\* cascade, the view-projection matrix of each of its submissions and the
\* product projection x view of its ObserverInfo are one matrix, and the
\* z_far stored, the z_far of its ObserverInfo and the z_far of each of its
\* submissions are one value.
C21_ThreeViewsAgree ==
    \A i \in CascadeIndices :
       WrittenInThisCall(i) =>
          \A k \in LogIndices :
             /\ (log[k].op = "from_graph" /\ log[k].i = i) =>
                   /\ MatMul(log[k].observer.projection_matrix,
                             log[k].observer.view_matrix) =
                         renderer.cascades[i].view_proj_matrix
                   /\ log[k].observer.z_far = renderer.cascades[i].z_far
             /\ (log[k].op = "submit" /\ log[k].i = i) =>
                   /\ log[k].view_projection_matrix =
                         renderer.cascades[i].view_proj_matrix
                   /\ log[k].z_far = renderer.cascades[i].z_far

\* C21 witness: a call that followed a failed one returned Ok after a
\* submission in each cascade, with matrices that are products.
C21_Witness ==
    /\ pc = "done"
    /\ result.kind = "ok"
    /\ before = "err"
    /\ \A i \in CascadeIndices :
          /\ renderer.cascades[i].view_proj_matrix.kind = "product"
          /\ \E k \in LogIndices :
                /\ log[k].op = "submit"
                /\ log[k].i = i
                /\ log[k].view_projection_matrix = renderer.cascades[i].view_proj_matrix

\* C22: every submission of a render call goes with the directional shadow
\* pass name into the frame buffer of its own cascade, which has a depth
\* attachment and no colour attachment, with use_pom false, white ambient
\* light, no light data and no scene depth.
C22_SubmissionsShadowOnly ==
    \A k \in LogIndices :
       log[k].op = "submit" =>
          /\ log[k].render_pass_name = "DirectionalShadow"
          /\ log[k].target = renderer.cascades[log[k].i].frame_buffer.id
          /\ \A j \in CascadeIndices :
                renderer.cascades[j].frame_buffer.id = log[k].target => j = log[k].i
          /\ renderer.cascades[log[k].i].frame_buffer.color_attachments = <<>>
          /\ renderer.cascades[log[k].i].frame_buffer.depth.kind \in {"D32F", "D16"}
          /\ log[k].use_pom = FALSE
          /\ log[k].ambient_light = "WHITE"
          /\ log[k].light_data = [some |-> FALSE]
          /\ log[k].scene_depth = [some |-> FALSE]

\* C22 witness: the bundle of cascade 2 was submitted after that of cascade
\* 0, cascade 1 having had none, and the backend refused it.
C22_Witness ==
    /\ pc = "done"
    /\ result.kind = "err"
    /\ Len(log) = 11
    /\ log[4].op = "submit" /\ log[4].i = 0 /\ log[4].target = 0
    /\ log[11].op = "submit" /\ log[11].i = 2 /\ log[11].target = 2
    /\ ~log[11].result.ok
    /\ ~log[11].use_pom

\* The extraction of the frustum of cascade i fails in the call.
ExtractionFails(i) ==
    LET zv == Boundaries
    IN ~FrustumFromViewProjection(
            CameraViewProjection(ctx.camera, ctx.frame_size, zv[i],
                                 IF zv[i + 1] = zv[i] THEN FAdd(zv[i + 1], TenEpsilon)
                                 ELSE zv[i + 1])).some

SubmissionsOf(i) == {k \in LogIndices : log[k].op = "submit" /\ log[k].i = i}

\* C23: a cascade whose frustum extraction fails is fitted to the default
\* frustum and handled like any other: its matrix and z_far are stored, its
\* target is cleared, its observer is placed by the default frustum, its
\* bundles are submitted; the call returns an error only for a submission
\* that failed and stops otherwise only for a light view matrix of parallel
\* axes.
C23_DefaultFrustumFrameGoesOn ==
    /\ ctx.active =>
          \A i \in CascadeIndices :
             (WrittenInThisCall(i) /\ ExtractionFails(i)) =>
                /\ Cleared(i)
                /\ \E k \in ObserversOf(i) :
                      /\ log[k].observer.observer_position.base = [kind |-> "default"]
                      /\ log[k].observer.projection_matrix.box.corners = [kind |-> "default"]
                      /\ ((loc.active /\ loc.i > i) \/ (pc = "done" /\ result.kind = "ok")) =>
                            Cardinality(SubmissionsOf(i)) = log[k].bundles
                /\ renderer.cascades[i].z_far = Boundaries[i + 1]
                /\ renderer.cascades[i].view_proj_matrix.kind = "product" =>
                      renderer.cascades[i].view_proj_matrix.left.box.corners =
                         [kind |-> "default"]
    /\ (pc = "done" /\ result.kind = "err") => ~log[Len(log)].result.ok
    /\ pc = "panicked" =>
          Cross(LightUpVec(ctx.light), VecNeg(LightDirection(ctx.light))) = <<0, 0, 0>>

\* C23 witness: far planes 64, 64, 100; the extraction failed for cascade 1,
\* whose bundle was drawn, and the call went on through cascade 2 and
\* returned Ok.
C23_Witness ==
    /\ pc = "done"
    /\ result.kind = "ok"
    /\ ExtractionFails(1)
    /\ ~ExtractionFails(2)
    /\ Cardinality(SubmissionsOf(1)) = 1
    /\ Cardinality(SubmissionsOf(2)) = 1
    /\ renderer.cascades[1].view_proj_matrix.kind = "product"
    /\ renderer.cascades[1].view_proj_matrix.left.box.corners = [kind |-> "default"]

\* C24 as stated: the boundaries of the call stay as planned and every
\* cascade takes the planned boundary as its near plane; and a cascade whose
\* far plane was nudged holds a z_far that differs from the near plane of
\* the cascade after it.
C24_NudgeLocalAndVisible ==
    loc.active =>
        LET zv == Boundaries
        IN /\ loc.z_values = zv
           /\ loc.fit.active => loc.fit.z_near = zv[loc.i]
           /\ \A k \in LogIndices :
                 log[k].op = "from_graph" => log[k].observer.z_near = zv[log[k].i]
           /\ \A i \in 0 .. 1 :
                 (WrittenInThisCall(i) /\ zv[i + 1] = zv[i]) =>
                     renderer.cascades[i].z_far # zv[i + 1]

\* C25: a renderer no render call was made on holds z_far 0.0 and the
\* default matrix in each of its 3 cascades; and a step changes z_far or the
\* matrix of cascade i of a live renderer only when it is the pass of the
\* render loop for index i.
C25_WrittenOnlyByOwnPass ==
    /\ []((renderer.live /\ pc = "idle") =>
             \A i \in CascadeIndices :
                /\ renderer.cascades[i].z_far = <<0, 0>>
                /\ renderer.cascades[i].view_proj_matrix = [kind |-> "default"])
    /\ [][(renderer.live /\ renderer'.live) =>
             \A i \in CascadeIndices :
                (\/ renderer'.cascades[i].z_far # renderer.cascades[i].z_far
                 \/ renderer'.cascades[i].view_proj_matrix #
                       renderer.cascades[i].view_proj_matrix) =>
                    /\ pc = "loop"
                    /\ pc' = "bundles"
                    /\ loc.i = i]_vars

\* C25 witness: a renderer constructed after an earlier one had rendered and
\* was dropped: no call was made on it and its cascades are as constructed.
C25_Witness ==
    /\ renderer.live
    /\ pc = "idle"
    /\ frames = 1
    /\ \A i \in CascadeIndices :
          /\ renderer.cascades[i].z_far = <<0, 0>>
          /\ renderer.cascades[i].view_proj_matrix = [kind |-> "default"]

\* ---------------------------------------------------------------- tile map
\* TileMap::collect_render_data of fyrox-impl/src/scene/tilemap/mod.rs, with
\* the render context handed to the effects of the tile map.  A position is a
\* pair <<x, y>> of grid coordinates; the log holds, for the call in progress
\* (or the last one), the effects that were run, the set_tile_visible calls
\* and the tiles pushed into the render storage, in order.

DIRECTIONAL_SHADOW_PASS_NAME == "DirectionalShadow"

SPOT_SHADOW_PASS_NAME == "SpotShadow"

POINT_SHADOW_PASS_NAME == "PointShadow"

\* renderer::is_shadow_pass: the three shadow pass names.
IsShadowPass(render_pass_name) ==
    \/ render_pass_name = DIRECTIONAL_SHADOW_PASS_NAME
    \/ render_pass_name = SPOT_SHADOW_PASS_NAME
    \/ render_pass_name = POINT_SHADOW_PASS_NAME

IMin(a, b) == IF a < b THEN a ELSE b

IMax(a, b) == IF a < b THEN b ELSE a

\* OptionTileRect::push: the smallest rectangle of cells that holds the
\* rectangle and the position.
TileRectPush(rect, position) ==
    IF rect.some
    THEN Some([lo |-> <<IMin(rect.v.lo[1], position[1]), IMin(rect.v.lo[2], position[2])>>,
               hi |-> <<IMax(rect.v.hi[1], position[1]), IMax(rect.v.hi[2], position[2])>>])
    ELSE Some([lo |-> position, hi |-> position])

\* OptionTileRect::contains: no position lies in the empty rectangle.
TileRectContains(rect, position) ==
    /\ rect.some
    /\ rect.v.lo[1] <= position[1] /\ position[1] <= rect.v.hi[1]
    /\ rect.v.lo[2] <= position[2] /\ position[2] <= rect.v.hi[2]

TileRectIsNone(rect) == ~rect.some

\* Lines 1179-1227.  A frustum is given by the cells in which its four edge
\* rays meet the plane of the tile map, or by no cells when a ray misses it.
CellsTouchingFrustum(frustum) ==
    IF ~frustum.hits.some
    THEN None
    ELSE TileRectPush(TileRectPush(TileRectPush(TileRectPush(None,
             frustum.hits.v[1]), frustum.hits.v[2]), frustum.hits.v[3]), frustum.hits.v[4])

\* Base::should_be_rendered: a node that is globally visible and, when a
\* frustum is given, met by it.
ShouldBeRendered(tile_map, frustum) ==
    /\ tile_map.global_visibility
    /\ (frustum.some => frustum.v.intersects)

\* TileSetRef::as_loaded: the tiles of a loaded tile set, none otherwise.
AsLoaded(tile_set_resource) ==
    IF tile_set_resource.loaded THEN Some(tile_set_resource.tiles) ELSE None

\* OptionTileSet::get_tile_render_data.
GetTileRenderData(tile_set, handle) ==
    IF tile_set.some /\ handle \in tile_set.v THEN Some(handle) ELSE None

\* A set_tile_visible that can hide a position but never show it again.
SetTileVisibleInsertOnly(hidden_tiles, position, is_visible) ==
    IF is_visible THEN hidden_tiles ELSE hidden_tiles \cup {position}

\* Lines 135-141.
SetTileVisible(hidden_tiles, position, is_visible) ==
    IF is_visible THEN hidden_tiles \ {position} ELSE hidden_tiles \cup {position}

\* Lines 146-148.
IsTileVisible(hidden_tiles, position) == position \notin hidden_tiles

\* Lines 154-172, draw_tile and push_tile: the tile is pushed into the storage when the
\* tile set has render data for the handle.
DrawTile(storage, tile_set, position, handle, by) ==
    IF GetTileRenderData(tile_set, handle).some
    THEN Append(storage, [kind |-> "push", position |-> position,
                          handle |-> handle, by |-> by])
    ELSE storage

P1 == <<0, 0>>

P2 == <<1, 0>>

P3 == <<4, 4>>

\* The tiles of the map: handle 1 has render data in the tile set, 2 has not.
Tiles == [p \in {P1, P2, P3} |-> IF p = P2 THEN 2 ELSE 1]

SetOp(position, is_visible) ==
    [op |-> "set_tile_visible", position |-> position, is_visible |-> is_visible]

DrawOp(position, handle) == [op |-> "draw_tile", position |-> position, handle |-> handle]

\* What render_special_tiles of an effect does with the context.
BeforeEffects ==
    {<<>>,
     << <<SetOp(P1, FALSE)>> >>,
     << <<SetOp(P1, FALSE), SetOp(P3, FALSE)>>, <<SetOp(P1, TRUE)>> >>,
     << <<DrawOp(P3, 3), SetOp(P3, FALSE)>> >>}

AfterEffects == {<<>>, << <<SetOp(P1, FALSE), DrawOp(P1, 3)>> >>}

TileMapOf(tile_set, before_effects, after_effects, global_visibility) ==
    [tiles |-> Tiles, tile_set |-> tile_set, hidden_tiles |-> {},
     before_effects |-> before_effects, after_effects |-> after_effects,
     global_visibility |-> global_visibility]

\* TileMap::default has an empty hidden set (line 1238); so has every clone.
TileMaps ==
    {TileMapOf(Some([loaded |-> TRUE, tiles |-> {1, 3}]), b, a, TRUE) :
         b \in BeforeEffects, a \in AfterEffects}
    \cup {TileMapOf(None, << <<SetOp(P1, FALSE)>> >>, <<>>, TRUE),
          TileMapOf(Some([loaded |-> FALSE, tiles |-> {1, 3}]),
                    << <<SetOp(P1, FALSE)>> >>, <<>>, TRUE),
          TileMapOf(Some([loaded |-> TRUE, tiles |-> {1, 3}]),
                    << <<SetOp(P1, FALSE)>> >>, <<>>, FALSE)}

TileFrusta ==
    {None,
     Some([intersects |-> TRUE, hits |-> Some(<<P1, P2, <<0, 1>>, <<1, 1>> >>)]),
     Some([intersects |-> TRUE, hits |-> None]),
     Some([intersects |-> FALSE, hits |-> None])}

RenderContexts ==
    [render_pass_name : {"Forward"}, frustum : TileFrusta]
    \cup [render_pass_name : {DIRECTIONAL_SHADOW_PASS_NAME, SPOT_SHADOW_PASS_NAME,
                              POINT_SHADOW_PASS_NAME},
          frustum : {None}]
    \cup [render_pass_name : {DIRECTIONAL_SHADOW_PASS_NAME},
          frustum : {Some([intersects |-> TRUE, hits |-> None])}]

MaxCollections == 2

Continue == [kind |-> "Continue"]

InitTile ==
    /\ scene \in TileMaps
    /\ ctx = NoContext
    /\ renderer = NoRenderer
    /\ created = [kind |-> "none"]
    /\ pc = "idle"
    /\ loc = NoLocals
    /\ log = <<>>
    /\ result = NoResult
    /\ frames = 0
    /\ before = {}

\* Line 1310: a call of collect_render_data with some render context.
CollectBegin ==
    /\ pc = "idle"
    /\ frames < MaxCollections
    /\ \E c \in RenderContexts :
          ctx' = [active |-> TRUE, render_pass_name |-> c.render_pass_name,
                  frustum |-> c.frustum]
    /\ before' = scene.hidden_tiles
    /\ log' = <<>>
    /\ loc' = NoLocals
    /\ result' = NoResult
    /\ frames' = frames + 1
    /\ pc' = "entered"
    /\ UNCHANGED <<scene, renderer, created>>

\* Lines 1311-1313.
ReturnNotRendered ==
    /\ pc = "entered"
    /\ ~ShouldBeRendered(scene, ctx.frustum)
    /\ result' = Continue
    /\ pc' = "idle"
    /\ UNCHANGED <<scene, renderer, created, ctx, loc, log, frames, before>>

\* Lines 1315-1317.
ReturnShadowPass ==
    /\ pc = "entered"
    /\ ShouldBeRendered(scene, ctx.frustum)
    /\ IsShadowPass(ctx.render_pass_name)
    /\ result' = Continue
    /\ pc' = "idle"
    /\ UNCHANGED <<scene, renderer, created, ctx, loc, log, frames, before>>

\* Lines 1319-1321.
ReturnNoTileSet ==
    /\ pc = "entered"
    /\ ShouldBeRendered(scene, ctx.frustum)
    /\ ~IsShadowPass(ctx.render_pass_name)
    /\ ~scene.tile_set.some
    /\ result' = Continue
    /\ pc' = "idle"
    /\ UNCHANGED <<scene, renderer, created, ctx, loc, log, frames, before>>

\* A body that runs for a shadow pass as for any other.
CollectPrepareAnyPass ==
    /\ pc = "entered"
    /\ ShouldBeRendered(scene, ctx.frustum)
    /\ scene.tile_set.some
    /\ scene' = [scene EXCEPT !.hidden_tiles = {}]
    /\ loc' = [active |-> TRUE,
               bounds |-> IF ctx.frustum.some
                          THEN CellsTouchingFrustum(ctx.frustum.v)
                          ELSE None,
               tile_set |-> AsLoaded(scene.tile_set.v),
               e |-> 1, k |-> 1, pending |-> {}]
    /\ pc' = "before"
    /\ UNCHANGED <<renderer, created, ctx, log, result, frames, before>>

\* Lines 1323-1342: the hidden set is cleared and the context of the effects
\* is made.
CollectPrepare ==
    /\ pc = "entered"
    /\ ShouldBeRendered(scene, ctx.frustum)
    /\ ~IsShadowPass(ctx.render_pass_name)
    /\ scene.tile_set.some
    /\ scene' = [scene EXCEPT !.hidden_tiles = {}]
    /\ loc' = [active |-> TRUE,
               bounds |-> IF ctx.frustum.some
                          THEN CellsTouchingFrustum(ctx.frustum.v)
                          ELSE None,
               tile_set |-> AsLoaded(scene.tile_set.v),
               e |-> 1, k |-> 1, pending |-> {}]
    /\ pc' = "before"
    /\ UNCHANGED <<renderer, created, ctx, log, result, frames, before>>

\* One call that render_special_tiles of effect loc.e makes on the context.
EffectOp(phase, effects) ==
    /\ pc = phase
    /\ loc.e <= Len(effects)
    /\ \E op \in {effects[loc.e][loc.k]} :
       \E started \in {IF loc.k = 1
                       THEN Append(log, [kind |-> "effect", by |-> phase, index |-> loc.e])
                       ELSE log} :
          IF op.op = "set_tile_visible"
          THEN /\ scene' = [scene EXCEPT
                              !.hidden_tiles = SetTileVisible(scene.hidden_tiles,
                                                              op.position, op.is_visible)]
               /\ log' = Append(started, [kind |-> "set_tile_visible", by |-> phase,
                                          position |-> op.position,
                                          is_visible |-> op.is_visible])
          ELSE /\ log' = DrawTile(started, loc.tile_set, op.position, op.handle, phase)
               /\ UNCHANGED scene
    /\ loc' = IF loc.k = Len(effects[loc.e])
              THEN [loc EXCEPT !.e = loc.e + 1, !.k = 1]
              ELSE [loc EXCEPT !.k = loc.k + 1]
    /\ UNCHANGED <<renderer, created, pc, ctx, result, frames, before>>

\* Lines 1344-1346.
BeforeEffectOp == EffectOp("before", scene.before_effects)

\* Line 1347: the before-effects are through; the tiles of the map are next.
BeforeDone ==
    /\ pc = "before"
    /\ loc.e > Len(scene.before_effects)
    /\ loc' = [loc EXCEPT !.pending = DOMAIN scene.tiles]
    /\ pc' = "tiles"
    /\ UNCHANGED <<scene, renderer, created, ctx, log, result, frames, before>>

\* Lines 1348-1354: one tile of the map, in the order the hash map gives.
DrawOwnTile ==
    /\ pc = "tiles"
    /\ \E position \in loc.pending :
          /\ log' = IF /\ (TileRectIsNone(loc.bounds) \/ TileRectContains(loc.bounds, position))
                       /\ IsTileVisible(scene.hidden_tiles, position)
                    THEN DrawTile(log, loc.tile_set, position, scene.tiles[position],
                                  "tile_map")
                    ELSE log
          /\ loc' = [loc EXCEPT !.pending = loc.pending \ {position}]
    /\ UNCHANGED <<scene, renderer, created, pc, ctx, result, frames, before>>

\* Line 1354: every tile of the map was looked at.
TilesDone ==
    /\ pc = "tiles"
    /\ loc.pending = {}
    /\ loc' = [loc EXCEPT !.e = 1, !.k = 1]
    /\ pc' = "after"
    /\ UNCHANGED <<scene, renderer, created, ctx, log, result, frames, before>>

\* Lines 1355-1357.
AfterEffectOp == EffectOp("after", scene.after_effects)

\* Line 1358.
CollectReturn ==
    /\ pc = "after"
    /\ loc.e > Len(scene.after_effects)
    /\ result' = Continue
    /\ pc' = "idle"
    /\ UNCHANGED <<scene, renderer, created, ctx, loc, log, frames, before>>

NextTile ==
    \/ CollectBegin
    \/ ReturnNotRendered
    \/ ReturnShadowPass
    \/ ReturnNoTileSet
    \/ CollectPrepare
    \/ BeforeEffectOp
    \/ BeforeDone
    \/ DrawOwnTile
    \/ TilesDone
    \/ AfterEffectOp
    \/ CollectReturn

SpecTile == InitTile /\ [][NextTile]_vars

\* ------------------------------------------------------- claims: tile map

TilePositions == {P1, P2, P3}

\* The last set_tile_visible call for the position that one of the phases
\* made in this call passed false.
HiddenBy(position, phases) ==
    \E i \in LogIndices :
       /\ log[i].kind = "set_tile_visible"
       /\ log[i].by \in phases
       /\ log[i].position = position
       /\ ~log[i].is_visible
       /\ \A j \in LogIndices :
             (j > i /\ log[j].kind = "set_tile_visible" /\ log[j].by \in phases)
                => log[j].position # position

\* The tile map itself pushed its tile at the position.
OwnTileAt(position) ==
    \E i \in LogIndices :
       /\ log[i].kind = "push"
       /\ log[i].by = "tile_map"
       /\ log[i].position = position

\* The call in progress, or the last one, cleared the hidden set and ran
\* the effects.
InCollection == loc.active

\* C26: a call of collect_render_data with a shadow render pass name, the
\* name the CSM renderer uses among them, takes one of the first two returns:
\* it pushes no tile, runs no effect, makes no set_tile_visible call, leaves
\* the hidden set as it was at the call, and returns Continue.
C26_ShadowPassAddsNothing ==
    (ctx.active /\ ctx.render_pass_name \in {"DirectionalShadow", "SpotShadow",
                                             "PointShadow"}) =>
        /\ pc \in {"entered", "idle"}
        /\ log = <<>>
        /\ ~loc.active
        /\ scene.hidden_tiles = before
        /\ (pc = "idle" => result = [kind |-> "Continue"])

C26_Witness ==
    /\ pc = "idle"
    /\ ctx.active
    /\ ctx.render_pass_name = "DirectionalShadow"
    /\ result = [kind |-> "Continue"]
    /\ scene.global_visibility
    /\ scene.tile_set.some
    /\ scene.before_effects # <<>>
    /\ scene.after_effects # <<>>
    /\ before # {}

\* C27 as stated: in every call, once its body runs, a position is hidden
\* exactly when the last set_tile_visible call of this call for it passed
\* false.
C27_VisibilityInEveryCall ==
    (ctx.active /\ pc # "entered") =>
        \A p \in TilePositions :
           (p \in scene.hidden_tiles) <=> HiddenBy(p, {"before", "after"})

\* C27: in a call that gets past the three early returns, a position is
\* hidden exactly when the last set_tile_visible call of this call for it
\* passed false (none is hidden before the first such call); the tile map
\* pushes its own tile at p only if the before-effects left p visible and p
\* lies in the visible bounds or there are no bounds; and once the tiles of
\* the map are through, each such tile with render data stays pushed, whatever
\* the after-effects hide.
C27_VisibilityInCollection ==
    InCollection =>
        /\ \A p \in TilePositions :
              (p \in scene.hidden_tiles) <=> HiddenBy(p, {"before", "after"})
        /\ \A p \in TilePositions :
              OwnTileAt(p) =>
                 /\ ~HiddenBy(p, {"before"})
                 /\ (~loc.bounds.some \/ TileRectContains(loc.bounds, p))
        /\ (pc \in {"after", "idle"}) =>
              \A p \in DOMAIN scene.tiles :
                 (/\ ~HiddenBy(p, {"before"})
                  /\ (~loc.bounds.some \/ TileRectContains(loc.bounds, p))
                  /\ loc.tile_set.some
                  /\ scene.tiles[p] \in loc.tile_set.v) => OwnTileAt(p)

C27_Witness ==
    /\ pc = "idle"
    /\ loc.active
    /\ OwnTileAt(P1)
    /\ ~OwnTileAt(P3)
    /\ P1 \in scene.hidden_tiles
    /\ P3 \in scene.hidden_tiles
    /\ \E i \in LogIndices : log[i].kind = "set_tile_visible" /\ log[i].is_visible

\* -------------------------------------------------------------- ChangeFlag
\* ChangeFlag of fyrox-impl/src/scene/tilemap/mod.rs, lines 275-295: a flag
\* with the calls set, reset and needs_save.  The log holds the set and reset
\* calls made so far, the result the answer of a needs_save call made after
\* the last of them.

\* Line 276: #[derive(Default)] of ChangeFlag(bool).
ChangeFlagDefault == FALSE

\* Lines 282-284.
NeedsSave(flag) == flag

\* Lines 287-289.
ChangeFlagReset(flag) == FALSE

\* A set that flips the flag.
ChangeFlagSetFlips(flag) == ~flag

\* Lines 292-294.
ChangeFlagSet(flag) == TRUE

MaxCalls == 6

InitFlag ==
    /\ scene = [change_flag |-> ChangeFlagDefault]
    /\ ctx = NoContext
    /\ renderer = NoRenderer
    /\ created = [kind |-> "none"]
    /\ pc = "idle"
    /\ loc = NoLocals
    /\ log = <<>>
    /\ result = NoResult
    /\ frames = 0
    /\ before = "none"

FlagSet ==
    /\ Len(log) < MaxCalls
    /\ scene' = [scene EXCEPT !.change_flag = ChangeFlagSet(scene.change_flag)]
    /\ log' = Append(log, "set")
    /\ result' = NoResult
    /\ frames' = frames + 1
    /\ UNCHANGED <<renderer, created, pc, ctx, loc, before>>

FlagReset ==
    /\ Len(log) < MaxCalls
    /\ scene' = [scene EXCEPT !.change_flag = ChangeFlagReset(scene.change_flag)]
    /\ log' = Append(log, "reset")
    /\ result' = NoResult
    /\ frames' = frames + 1
    /\ UNCHANGED <<renderer, created, pc, ctx, loc, before>>

FlagNeedsSave ==
    /\ result' = [kind |-> "bool", v |-> NeedsSave(scene.change_flag)]
    /\ UNCHANGED <<scene, renderer, created, pc, ctx, loc, log, frames, before>>

NextFlag ==
    \/ FlagSet
    \/ FlagReset
    \/ FlagNeedsSave

SpecFlag == InitFlag /\ [][NextFlag]_vars

\* ------------------------------------------------------ claims: ChangeFlag

\* C28: the flag starts false; after any sequence of set and reset calls,
\* needs_save() answers true exactly when there was a call and the last one
\* was set; and a set after a set, or a reset after a reset, changes nothing.
C28_TrueIffLastCallWasSet ==
    /\ [](/\ scene.change_flag = (log # <<>> /\ log[Len(log)] = "set")
          /\ (result.kind = "bool" =>
                 result.v = (log # <<>> /\ log[Len(log)] = "set")))
    /\ [][(log # <<>> /\ log' = Append(log, log[Len(log)])) =>
             scene'.change_flag = scene.change_flag]_vars

C28_Witness ==
    /\ log = <<"set", "reset", "reset", "set", "set">>
    /\ result = [kind |-> "bool", v |-> TRUE]

\* ------------------------------------------------------ tile map editor plugin
\* TileMapEditorPlugin::on_message of editor/src/plugins/tilemap/mod.rs.  The
\* editor is its current scene entry (if any), with the selection, the kind
\* of the scene controller and the interaction modes of the entry, and the
\* graph of the scene: for each handle the kind of the node, or "vacant" for
\* a handle of no node.

Handles == {1, 2, 3}

\* Lines 18-21: the mode and the node it is bound to.
TileMapInteractionMode(tile_map) ==
    [type |-> "TileMapInteractionMode", tile_map |-> tile_map]

\* A mode of another type, as every scene entry has.
MoveInteractionMode == [type |-> "MoveInteractionMode", tile_map |-> 0]

\* Graph::try_get.
TryGet(graph, handle) ==
    IF graph[handle] = "vacant" THEN None ELSE Some(graph[handle])

\* component_ref::<TileMap>() of a node.
ComponentRefTileMap(node) == IF node = "TileMap" THEN Some(node) ELSE None

\* InteractionModeContainer::add.
AddMode(interaction_modes, mode) == Append(interaction_modes, mode)

\* InteractionModeContainer::remove_typed: the first mode of the type is
\* taken out.
RemoveTyped(interaction_modes, type) ==
    LET at == {k \in 1 .. Len(interaction_modes) : interaction_modes[k].type = type}
    IN  IF at = {}
        THEN interaction_modes
        ELSE LET first == CHOOSE k \in at : \A j \in at : k <= j
             IN  [k \in 1 .. Len(interaction_modes) - 1 |->
                     IF k < first THEN interaction_modes[k] ELSE interaction_modes[k + 1]]

RECURSIVE AddForEverySelected(_, _, _, _)
\* A loop that does not stop at the first tile map.
AddForEverySelected(interaction_modes, nodes, k, graph) ==
    IF k > Len(nodes)
    THEN interaction_modes
    ELSE IF /\ TryGet(graph, nodes[k]).some
            /\ ComponentRefTileMap(TryGet(graph, nodes[k]).v).some
         THEN AddForEverySelected(AddMode(interaction_modes,
                                          TileMapInteractionMode(nodes[k])),
                                  nodes, k + 1, graph)
         ELSE AddForEverySelected(interaction_modes, nodes, k + 1, graph)

RECURSIVE AddForSelection(_, _, _, _)
\* Lines 103-115: the loop over the selected nodes from the k-th on.
AddForSelection(interaction_modes, nodes, k, graph) ==
    IF k > Len(nodes)
    THEN interaction_modes
    ELSE IF /\ TryGet(graph, nodes[k]).some
            /\ ComponentRefTileMap(TryGet(graph, nodes[k]).v).some
         THEN AddMode(interaction_modes, TileMapInteractionMode(nodes[k]))
         ELSE AddForSelection(interaction_modes, nodes, k + 1, graph)

Messages == {"SelectionChanged", "SaveScene"}

\* Selection::as_graph is Some for a graph selection only.
Selections ==
    {[kind |-> "none", nodes |-> <<>>]}
    \cup [kind : {"graph"},
          nodes : {<<>>} \cup {<<a>> : a \in Handles}
                  \cup {<<a, b>> : a \in Handles, b \in Handles}]

Controllers == {"GameScene", "UiScene"}

MaxMessages == 3

InitEditor ==
    /\ scene \in [has_current : BOOLEAN,
                  entry : [selection : {[kind |-> "none", nodes |-> <<>>]},
                           controller : Controllers,
                           interaction_modes : {<<MoveInteractionMode>>}],
                  graph : {[h \in Handles |-> IF h = 2 THEN "Mesh" ELSE "TileMap"]}]
    /\ ctx = NoContext
    /\ renderer = NoRenderer
    /\ created = [kind |-> "none"]
    /\ pc = "idle"
    /\ loc = NoLocals
    /\ log = <<>>
    /\ result = NoResult
    /\ frames = 0
    /\ before = <<>>

\* Lines 83-117: one message; before keeps the modes as they were.
OnMessage ==
    /\ frames < MaxMessages
    /\ \E message \in Messages :
          /\ ctx' = [active |-> TRUE, message |-> message]
          /\ scene' =
                IF \/ ~scene.has_current
                   \/ scene.entry.selection.kind # "graph"
                   \/ scene.entry.controller # "GameScene"
                   \/ message # "SelectionChanged"
                THEN scene
                ELSE [scene EXCEPT !.entry.interaction_modes =
                         AddForSelection(
                             RemoveTyped(scene.entry.interaction_modes,
                                         "TileMapInteractionMode"),
                             scene.entry.selection.nodes, 1, scene.graph)]
    /\ before' = scene.entry.interaction_modes
    /\ frames' = frames + 1
    /\ UNCHANGED <<renderer, created, pc, loc, log, result>>

\* The editor changes the selection of the entry.
Select ==
    /\ \E s \in Selections : scene' = [scene EXCEPT !.entry.selection = s]
    /\ UNCHANGED <<renderer, created, pc, ctx, loc, log, result, frames, before>>

\* The current scene is closed, or opened again.
SwitchScene ==
    /\ scene' = [scene EXCEPT !.has_current = ~scene.has_current]
    /\ UNCHANGED <<renderer, created, pc, ctx, loc, log, result, frames, before>>

\* A node of the scene is deleted; its handle stays in selections.
DeleteNode ==
    /\ \E h \in Handles :
          /\ scene.graph[h] # "vacant"
          /\ scene' = [scene EXCEPT !.graph[h] = "vacant"]
    /\ UNCHANGED <<renderer, created, pc, ctx, loc, log, result, frames, before>>

NextEditor ==
    \/ OnMessage
    \/ Select
    \/ SwitchScene
    \/ DeleteNode

SpecEditor == InitEditor /\ [][NextEditor]_vars

\* --------------------------------------------------- claims: editor plugin

IsTileMapMode(mode) == mode.type = "TileMapInteractionMode"

IsOtherMode(mode) == mode.type # "TileMapInteractionMode"

\* The places in the selection of existing nodes with a TileMap component.
TileMapsSelected ==
    {k \in 1 .. Len(scene.entry.selection.nodes) :
        scene.graph[scene.entry.selection.nodes[k]] = "TileMap"}

\* C29: a SelectionChanged message handled with a current scene, a graph
\* selection and a game scene leaves the modes of other types as they were
\* and, of TileMapInteractionMode, none when no selected node exists with a
\* TileMap component, else exactly one, bound to the first such node in
\* selection order, whatever mode was registered before; any other call of
\* on_message leaves the interaction modes unchanged.
C29_OneModeForFirstTileMap ==
    [][frames' # frames =>
          IF /\ scene.has_current
             /\ scene.entry.selection.kind = "graph"
             /\ scene.entry.controller = "GameScene"
             /\ ctx'.message = "SelectionChanged"
          THEN /\ SelectSeq(scene'.entry.interaction_modes, IsOtherMode)
                     = SelectSeq(scene.entry.interaction_modes, IsOtherMode)
               /\ SelectSeq(scene'.entry.interaction_modes, IsTileMapMode)
                     = IF TileMapsSelected = {}
                       THEN <<>>
                       ELSE LET first == CHOOSE k \in TileMapsSelected :
                                            \A j \in TileMapsSelected : k <= j
                            IN  << [type |-> "TileMapInteractionMode",
                                    tile_map |-> scene.entry.selection.nodes[first]] >>
          ELSE scene'.entry.interaction_modes = scene.entry.interaction_modes]_vars

C29_Witness ==
    /\ ctx.active
    /\ ctx.message = "SelectionChanged"
    /\ scene.has_current
    /\ scene.entry.controller = "GameScene"
    /\ scene.entry.selection = [kind |-> "graph", nodes |-> <<1, 3>>]
    /\ scene.graph[1] = "vacant"
    /\ \E k \in 1 .. Len(before) : before[k].type = "TileMapInteractionMode"
                                   /\ before[k].tile_map = 1
    /\ scene.entry.interaction_modes =
           <<[type |-> "MoveInteractionMode", tile_map |-> 0],
             [type |-> "TileMapInteractionMode", tile_map |-> 3]>>

====
